---- MODULE Spec2Model ----
(***************************************************************************)
(* Model of the RFP question-answering pipeline:                           *)
(*   - QuestionCache / LLMQuestionExtractor (services/question_cache.py,   *)
(*     services/question_extractor.py)                                     *)
(*   - QAAgent (agents/qa_agent.py)                                        *)
(*   - the workflow store (models/database.py)                             *)
(*   - RFPProcessorService (services/rfp_processor.py) and its background  *)
(*     caller (api/routes.py)                                              *)
(* Strings that the code inspects character by character are sequences of  *)
(* one-character strings; opaque texts (answers, file names) are strings.  *)
(* Scores are integers in hundredths; confidences in 1/30000.              *)
(***************************************************************************)
EXTENDS Integers, Sequences, FiniteSets, TLC

\* ------------------------------------------------------------------------
\* Optional values: None is the empty tuple, Some(x) a one-element tuple.
None == <<>>
Some(x) == <<x>>

\* ------------------------------------------------------------------------
\* Character-level string helpers (Python str methods and re).

Whitespace == {" ", "\n", "\t"}
Digits == {"0", "1", "2", "3", "4", "5", "6", "7", "8", "9"}
SentenceDelims == {".", "!", "?"}
UpperChars == <<"A","B","C","D","E","F","G","H","I","J","K","L","M","N","O","P","Q","R","S","T","U","V","W","X","Y","Z">>
LowerChars == <<"a","b","c","d","e","f","g","h","i","j","k","l","m","n","o","p","q","r","s","t","u","v","w","x","y","z">>

LowerChar(c) ==
    IF \E i \in 1..Len(UpperChars) : UpperChars[i] = c
    THEN LowerChars[CHOOSE i \in 1..Len(UpperChars) : UpperChars[i] = c]
    ELSE c

Lower(s) == [i \in 1..Len(s) |-> LowerChar(s[i])]

RECURSIVE DropWhile(_, _)
DropWhile(s, S) ==
    IF s # <<>> /\ Head(s) \in S THEN DropWhile(Tail(s), S) ELSE s

RECURSIVE DropWhileEnd(_, _)
DropWhileEnd(s, S) ==
    IF s # <<>> /\ s[Len(s)] \in S THEN DropWhileEnd(SubSeq(s, 1, Len(s) - 1), S) ELSE s

Strip(s) == DropWhileEnd(DropWhile(s, Whitespace), Whitespace)

EndsWith(s, c) == s # <<>> /\ s[Len(s)] = c

HasChar(s, c) == \E i \in 1..Len(s) : s[i] = c

Contains(s, p) ==
    \E i \in 1..(Len(s) - Len(p) + 1) : SubSeq(s, i, i + Len(p) - 1) = p

FirstIn(s, S) == CHOOSE i \in 1..Len(s) : s[i] \in S /\ \A j \in 1..(i - 1) : s[j] \notin S

\* str.split(c)
RECURSIVE Split(_, _)
Split(s, c) ==
    IF \E i \in 1..Len(s) : s[i] = c
    THEN LET i == FirstIn(s, {c})
         IN  <<SubSeq(s, 1, i - 1)>> \o Split(SubSeq(s, i + 1, Len(s)), c)
    ELSE <<s>>

\* re.split(r'[.!?]+', s)
RECURSIVE SplitSentences(_)
SplitSentences(s) ==
    IF \E i \in 1..Len(s) : s[i] \in SentenceDelims
    THEN LET i == FirstIn(s, SentenceDelims)
         IN  <<SubSeq(s, 1, i - 1)>>
             \o SplitSentences(DropWhile(SubSeq(s, i, Len(s)), SentenceDelims))
    ELSE <<s>>

\* list(dict.fromkeys(xs)): first occurrences, in order
RECURSIVE Dedup(_)
Dedup(xs) ==
    IF xs = <<>> THEN <<>>
    ELSE LET init == Dedup(SubSeq(xs, 1, Len(xs) - 1))
             x == xs[Len(xs)]
         IN  IF \E i \in 1..Len(init) : init[i] = x THEN init ELSE Append(init, x)

Take(xs, n) == SubSeq(xs, 1, IF Len(xs) < n THEN Len(xs) ELSE n)

\* ------------------------------------------------------------------------
\* Sample documents and sample raw outputs of the generative capability.

DocSLA ==
    <<"P","l","e","a","s","e"," ","d","e","s","c","r","i","b","e"," ","y","o","u","r"," ","S","L","A","."," ","I","s"," ","s","u","p","p","o","r","t"," ","2","4","x","7","?">>

DocTerms ==
    <<"G","e","n","e","r","a","l"," ","t","e","r","m","s"," ","a","p","p","l","y",".">>

RespNumbered ==
    <<" ","1","."," ","W","h","a","t"," ","i","s"," ","y","o","u","r"," ","S","L","A"," ","u","p","t","i","m","e","\n","\n","2",")"," ","D","e","s","c","r","i","b","e"," ","y","o","u","r"," ","s","e","c","u","r","i","t","y",".","\n","N","/","A">>

RespUnusable ==
    <<"N","o","n","e",".","\n">>

Texts == {DocSLA, DocTerms}
LLMResponses == {RespNumbered, RespUnusable}

\* ------------------------------------------------------------------------
\* LLMQuestionExtractor

MinQuestionLen == 10
MaxFallbackQuestions == 50

RequirementPatterns ==
    << <<"p","l","e","a","s","e"," ","d","e","s","c","r","i","b","e">>,
       <<"p","l","e","a","s","e"," ","p","r","o","v","i","d","e">>,
       <<"m","u","s","t"," ","p","r","o","v","i","d","e">>,
       <<"s","h","o","u","l","d"," ","p","r","o","v","i","d","e">>,
       <<"v","e","n","d","o","r"," ","m","u","s","t">>,
       <<"v","e","n","d","o","r"," ","s","h","o","u","l","d">>,
       <<"e","x","p","l","a","i","n"," ","y","o","u","r">>,
       <<"d","e","s","c","r","i","b","e"," ","y","o","u","r">>,
       <<"w","h","a","t"," ","i","s"," ","y","o","u","r">>,
       <<"h","o","w"," ","d","o"," ","y","o","u">>,
       <<"p","r","o","v","i","d","e"," ","d","e","t","a","i","l","s">> >>

\* _parse_questions, body of the loop for one line: strip, drop the
\* numbering r'^\d+[\.\)]\s*', strip again
CleanLine(line) ==
    LET stripped == Strip(line)
        afterDigits == DropWhile(stripped, Digits)
        unnumbered ==
            IF Len(afterDigits) < Len(stripped) /\ afterDigits # <<>>
               /\ Head(afterDigits) \in {".", ")"}
            THEN DropWhile(Tail(afterDigits), Whitespace)
            ELSE stripped
    IN  Strip(unnumbered)

RECURSIVE ParseLines(_)
ParseLines(lines) ==
    IF lines = <<>> THEN <<>>
    ELSE LET cleaned == CleanLine(Head(lines))
             rest == ParseLines(Tail(lines))
         IN  IF Strip(Head(lines)) = <<>> THEN rest
             ELSE IF cleaned # <<>> /\ Len(cleaned) > MinQuestionLen
                  THEN <<IF ~EndsWith(cleaned, "?") /\ ~EndsWith(cleaned, ".")
                         THEN Append(cleaned, "?") ELSE cleaned>> \o rest
                  ELSE rest

ParseQuestions(llm_response) == ParseLines(Split(llm_response, "\n"))

IsRequirement(sentence) ==
    \E i \in 1..Len(RequirementPatterns) :
        Contains(Lower(sentence), RequirementPatterns[i])

RECURSIVE FallbackSentences(_)
FallbackSentences(sentences) ==
    IF sentences = <<>> THEN <<>>
    ELSE LET sentence == Strip(Head(sentences))
             rest == FallbackSentences(Tail(sentences))
             asQuestion == IF EndsWith(sentence, "?") THEN sentence
                           ELSE Append(sentence, "?")
         IN  IF HasChar(sentence, "?") \/ EndsWith(sentence, "?")
             THEN <<asQuestion>> \o rest
             ELSE IF IsRequirement(sentence) THEN <<asQuestion>> \o rest
             ELSE rest

\* a fallback extraction that returns the retained sentences as they come
FallbackExtraction_NoDedup(document_text) ==
    Take(FallbackSentences(SplitSentences(document_text)), MaxFallbackQuestions)

FallbackExtraction(document_text) ==
    Take(Dedup(FallbackSentences(SplitSentences(document_text))), MaxFallbackQuestions)

\* ------------------------------------------------------------------------
\* QuestionCache: one JSON file per key.  An entry is absent, valid, or
\* present but unreadable (a write that failed after the file was opened).

\* sha256(text).hexdigest()[:16] of the sample documents
CacheKey(document_text) ==
    CASE document_text = DocSLA -> "956d45ff504c0582"
      [] document_text = DocTerms -> "0c80b995253f1073"

CacheKeys == {CacheKey(t) : t \in Texts}

AbsentEntry == [present |-> FALSE, valid |-> FALSE, questions |-> <<>>]
ValidEntry(questions) == [present |-> TRUE, valid |-> TRUE, questions |-> questions]
CorruptEntry == [present |-> TRUE, valid |-> FALSE, questions |-> <<>>]

ReadOutcomes == {"ok", "error"}
WriteOutcomes == {"ok", "open_failed", "dump_failed"}

\* get that hands back whatever an unreadable file holds
CacheGet_NoErrorCheck(c, document_text, readOutcome) ==
    LET e == c[CacheKey(document_text)]
    IN  IF ~e.present THEN None ELSE Some(e.questions)

\* QuestionCache.get: None on a missing file or on any read/parse error
CacheGet(c, document_text, readOutcome) ==
    LET e == c[CacheKey(document_text)]
    IN  IF ~e.present THEN None
        ELSE IF e.valid /\ readOutcome = "ok" THEN Some(e.questions)
        ELSE None

\* QuestionCache.set: the file content after the call
CacheSet(c, document_text, questions, writeOutcome) ==
    CASE writeOutcome = "ok" ->
            [c EXCEPT ![CacheKey(document_text)] = ValidEntry(questions)]
      [] writeOutcome = "open_failed" -> c
      [] writeOutcome = "dump_failed" ->
            [c EXCEPT ![CacheKey(document_text)] = CorruptEntry]

\* QuestionCache.set: the returned flag
CacheSetResult(writeOutcome) == writeOutcome = "ok"

\* self.cache_dir.glob("*.json")
CacheFiles(c) == {k \in DOMAIN c : c[k].present}

\* clear that leaves the files it cannot parse where they are
QuestionCacheClear_KeepsUnreadable(c, removed) ==
    LET deleted == {k \in removed : c[k].valid}
    IN  [cache |-> [k \in DOMAIN c |-> IF k \in deleted THEN AbsentEntry ELSE c[k]],
         count |-> Cardinality(deleted),
         failed |-> removed # CacheFiles(c)]

\* QuestionCache.clear: removed are the files unlinked before an unlink (or
\* the glob) raised, all of them if none did; the count returned and
\* whether the except branch ran
QuestionCacheClear(c, removed) ==
    [cache |-> [k \in DOMAIN c |-> IF k \in removed THEN AbsentEntry ELSE c[k]],
     count |-> Cardinality(removed),
     failed |-> removed # CacheFiles(c)]

\* QuestionCache.get_cache_stats: the files counted, or 0 when listing or
\* stat raises
GetCacheStats(c, outcome) ==
    [cache_count |-> IF outcome = "ok" THEN Cardinality(CacheFiles(c)) ELSE 0]

\* the cache file exists but get's open/json.load raises
ReadFails(c, document_text, readOutcome) ==
    LET e == c[CacheKey(document_text)]
    IN  e.present /\ (~e.valid \/ readOutcome # "ok")

\* _parse_questions and _fallback_extraction on the sample inputs
ParsedOf == [r \in LLMResponses |-> ParseQuestions(r)]
FallbackOf == [t \in Texts |-> FallbackExtraction(t)]

\* Outcome of one llm.generate call: it raises, or returns text
LLMRaise == [ok |-> FALSE, text |-> <<>>]
LLMReturn(text) == [ok |-> TRUE, text |-> text]
ExtractLLMOutcomes == {LLMRaise} \cup {LLMReturn(r) : r \in LLMResponses}

\* extract without the cache lookup at its start
Extract_NoCacheCheck(c, document_text, readOutcome, llm, writeOutcome) ==
    LET parsed == IF llm.ok THEN ParsedOf[llm.text] ELSE <<>>
        questions == IF llm.ok /\ parsed # <<>> THEN parsed
                     ELSE FallbackOf[document_text]
    IN  [questions |-> questions,
         cache |-> IF questions # <<>>
                   THEN CacheSet(c, document_text, questions, writeOutcome)
                   ELSE c,
         llmCalls |-> 1,
         hit |-> FALSE,
         stored |-> questions # <<>> /\ CacheSetResult(writeOutcome)]

\* extract whose except branch returns the fallback list without caching it
Extract_FallbackNotCached(c, document_text, readOutcome, llm, writeOutcome) ==
    LET cached == CacheGet(c, document_text, readOutcome)
        parsed == IF llm.ok THEN ParsedOf[llm.text] ELSE <<>>
        questions == IF llm.ok /\ parsed # <<>> THEN parsed
                     ELSE FallbackOf[document_text]
    IN  IF cached # None
        THEN [questions |-> cached[1], cache |-> c, llmCalls |-> 0,
              hit |-> TRUE, stored |-> FALSE]
        ELSE [questions |-> questions,
              cache |-> IF questions # <<>> /\ llm.ok
                        THEN CacheSet(c, document_text, questions, writeOutcome)
                        ELSE c,
              llmCalls |-> 1,
              hit |-> FALSE,
              stored |-> questions # <<>> /\ llm.ok /\ CacheSetResult(writeOutcome)]

\* an extract whose except branch returns an empty list
Extract_NoFallbackOnRaise(c, document_text, readOutcome, llm, writeOutcome) ==
    LET cached == CacheGet(c, document_text, readOutcome)
        parsed == IF llm.ok THEN ParsedOf[llm.text] ELSE <<>>
        questions == IF llm.ok /\ parsed # <<>> THEN parsed
                     ELSE IF llm.ok THEN FallbackOf[document_text]
                     ELSE <<>>
    IN  IF cached # None
        THEN [questions |-> cached[1], cache |-> c, llmCalls |-> 0,
              hit |-> TRUE, stored |-> FALSE]
        ELSE [questions |-> questions,
              cache |-> IF questions # <<>>
                        THEN CacheSet(c, document_text, questions, writeOutcome)
                        ELSE c,
              llmCalls |-> 1,
              hit |-> FALSE,
              stored |-> questions # <<>> /\ CacheSetResult(writeOutcome)]

\* LLMQuestionExtractor.extract: the returned list, the cache afterwards,
\* the number of llm.generate calls made and whether the list was stored
Extract(c, document_text, readOutcome, llm, writeOutcome) ==
    LET cached == CacheGet(c, document_text, readOutcome)
        parsed == IF llm.ok THEN ParsedOf[llm.text] ELSE <<>>
        questions == IF llm.ok /\ parsed # <<>> THEN parsed
                     ELSE FallbackOf[document_text]
    IN  IF cached # None
        THEN [questions |-> cached[1], cache |-> c, llmCalls |-> 0,
              hit |-> TRUE, stored |-> FALSE]
        ELSE [questions |-> questions,
              cache |-> IF questions # <<>>
                        THEN CacheSet(c, document_text, questions, writeOutcome)
                        ELSE c,
              llmCalls |-> 1,
              hit |-> FALSE,
              stored |-> questions # <<>> /\ CacheSetResult(writeOutcome)]

\* ------------------------------------------------------------------------
\* QAAgent

\* confidence 1.0 in the unit of the model (1/30000)
ConfidenceOne == 30000
\* top_k passed by the pipeline, and the number of results that counts as
\* full coverage
TopK == 5
CoverageResults == 5
\* longest search result explored
MaxChunks == 2

NoInfoAnswer == "I don't have enough information in the knowledge base to answer this question."
GeneratedAnswerText == "<text returned by llm.generate>"
ErrorMarkerAnswer == "Sorry, I encountered an error while generating the answer: LLM generation failed"
PlaceholderAnswer == "Unable to generate answer at this time. Please review manually."

MinOf(a, b) == IF a < b THEN a ELSE b

\* Knowledge-base chunks as (text, similarity, metadata) triples
Chunks ==
    { [text |-> "case study", score |-> 98, metadata |-> "healthcare"],
      [text |-> "press note", score |-> 30, metadata |-> "none"] }

\* VectorStore.search returns at most min(k, len(documents)) triples in
\* order of increasing distance, i.e. non-increasing similarity
SearchResults ==
    { rs \in UNION {[1..n -> Chunks] : n \in 0..MinOf(TopK, MaxChunks)} :
        \A i \in 1..(Len(rs) - 1) : rs[i].score >= rs[i + 1].score }

SearchRaise == [ok |-> FALSE, results |-> <<>>]
SearchReturn(rs) == [ok |-> TRUE, results |-> rs]
SearchOutcomes == {SearchRaise} \cup {SearchReturn(rs) : rs \in SearchResults}

GenerateOutcomes == {"ok", "raise"}

RECURSIVE SumScores(_)
SumScores(rs) == IF rs = <<>> THEN 0 ELSE Head(rs).score + SumScores(Tail(rs))

MaxScore(rs) == CHOOSE m \in {rs[i].score : i \in 1..Len(rs)} :
                    \A i \in 1..Len(rs) : rs[i].score <= m

\* _calculate_confidence with the sum of the scores in place of their average
CalculateConfidence_SumForAverage(search_results) ==
    IF search_results = <<>> THEN 0
    ELSE LET n == Len(search_results)
             sum120 == 120 * SumScores(search_results)
             max120 == 120 * MaxScore(search_results)
             coverage == (6000 * MinOf(n, CoverageResults)) \div CoverageResults
         IN  MinOf(sum120 + max120 + coverage, ConfidenceOne)

\* QAAgent._calculate_confidence, in units of 1/ConfidenceOne:
\* 0.4 * avg + 0.4 * max + 0.2 * min(n / 5, 1.0), capped at 1.0
CalculateConfidence(search_results) ==
    IF search_results = <<>> THEN 0
    ELSE LET n == Len(search_results)
             avg120 == (120 * SumScores(search_results)) \div n
             max120 == 120 * MaxScore(search_results)
             coverage == (6000 * MinOf(n, CoverageResults)) \div CoverageResults
         IN  MinOf(avg120 + max120 + coverage, ConfidenceOne)

\* _generate_answer without its "no results" early return
GenerateAnswer_NoEmptyCheck(search_results, llm) ==
    IF llm = "ok"
    THEN [answer |-> GeneratedAnswerText,
          confidence |-> CalculateConfidence(search_results), llmCalls |-> 1]
    ELSE [answer |-> ErrorMarkerAnswer, confidence |-> 0, llmCalls |-> 1]

\* QAAgent._generate_answer: (answer, confidence) and the llm.generate calls
GenerateAnswer(search_results, llm) ==
    IF search_results = <<>>
    THEN [answer |-> NoInfoAnswer, confidence |-> 0, llmCalls |-> 0]
    ELSE IF llm = "ok"
    THEN [answer |-> GeneratedAnswerText,
          confidence |-> CalculateConfidence(search_results), llmCalls |-> 1]
    ELSE [answer |-> ErrorMarkerAnswer, confidence |-> 0, llmCalls |-> 1]

\* ask in which the exception of llm.generate is not caught inside
\* _generate_answer
Ask_GenerateRaises(question, search, llm) ==
    IF ~search.ok \/ (search.results # <<>> /\ llm = "raise")
    THEN [raised |-> TRUE, question |-> question, answer |-> "", sources |-> <<>>,
          confidence |-> 0, llmCalls |-> IF search.ok THEN 1 ELSE 0]
    ELSE LET g == GenerateAnswer(search.results, llm)
         IN  [raised |-> FALSE, question |-> question, answer |-> g.answer,
              sources |-> search.results, confidence |-> g.confidence,
              llmCalls |-> g.llmCalls]

\* QAAgent.ask with include_sources=True
Ask(question, search, llm) ==
    IF ~search.ok
    THEN [raised |-> TRUE, question |-> question, answer |-> "", sources |-> <<>>,
          confidence |-> 0, llmCalls |-> 0]
    ELSE LET g == GenerateAnswer(search.results, llm)
         IN  [raised |-> FALSE, question |-> question, answer |-> g.answer,
              sources |-> search.results, confidence |-> g.confidence,
              llmCalls |-> g.llmCalls]

\* ------------------------------------------------------------------------
\* VectorStore and RetrieverAgent (the orchestrator's retrieval)

\* most documents in the index
MaxDocs == 3

\* the industry of the client context of the query
ClientIndustry == "healthcare"

\* Documents that add_documents can be given: the text, the similarity
\* 1 / (1 + distance) of its embedding to the query in hundredths, and the
\* metadata keys the retriever reads
KnowledgeDocs ==
    { [text |-> "uptime commitment", similarity |-> 95, industry |-> "healthcare",
       last_used |-> FALSE, win_outcome |-> FALSE],
      [text |-> "uptime commitment", similarity |-> 95, industry |-> "finance",
       last_used |-> FALSE, win_outcome |-> FALSE],
      [text |-> "support hours", similarity |-> 60, industry |-> "finance",
       last_used |-> TRUE, win_outcome |-> TRUE] }

\* top_k of the orchestrator's call and one below the index size
RetrieveTopKs == {1, 3}

EncoderOutcomes == {"ok", "raise"}

\* index.search(query_embedding, n): the positions of the n nearest stored
\* documents by increasing distance, equal distances in any order
NearestOrders(docs, n) ==
    { hits \in [1..n -> 1..Len(docs)] :
        /\ \A i, j \in 1..n : i # j => hits[i] # hits[j]
        /\ \A i \in 1..(n - 1) :
            docs[hits[i]].similarity >= docs[hits[i + 1]].similarity
        /\ \A i \in 1..n, d \in 1..Len(docs) :
            (\A j \in 1..n : hits[j] # d) =>
                docs[d].similarity <= docs[hits[i]].similarity }

\* search that encodes the query before it looks at the index size
VectorSearch_NoEmptyCheck(docs, top_k, encoder, hits) ==
    IF encoder # "ok" THEN [ok |-> FALSE, results |-> <<>>]
    ELSE [ok |-> TRUE, results |-> [i \in 1..Len(hits) |-> docs[hits[i]]]]

\* VectorStore.search(query, top_k) without filters; hits is what FAISS
\* returns for min(top_k, len(documents))
VectorSearch(docs, top_k, encoder, hits) ==
    IF Len(docs) = 0 THEN [ok |-> TRUE, results |-> <<>>]
    ELSE IF encoder # "ok" THEN [ok |-> FALSE, results |-> <<>>]
    ELSE [ok |-> TRUE, results |-> [i \in 1..Len(hits) |-> docs[hits[i]]]]

\* the metadata dictionary of a document, as add_knowledge receives it
MetadataOf(doc) ==
    [industry |-> doc.industry, last_used |-> doc.last_used,
     win_outcome |-> doc.win_outcome]

\* add_documents([text], [metadata] if metadata else None) of add_knowledge:
\* None stands for the empty dictionary that is stored without metadata
AddArguments ==
    { [document |-> doc.text, similarity |-> doc.similarity,
       metadata |-> IF with_metadata THEN Some(MetadataOf(doc)) ELSE None] :
        doc \in KnowledgeDocs, with_metadata \in BOOLEAN }

\* the vectors of the FAISS index, by their similarity to the query
IndexOf(added) == [i \in 1..Len(added) |-> [similarity |-> added[i].similarity]]

\* search, lines 93-108, without filters: a position FAISS returned is kept
\* when it is inside documents, with metadata[idx] when it is inside
\* metadata and the empty dictionary otherwise
CollectResults(hits, documents, metadata) ==
    LET kept == SelectSeq(hits, LAMBDA idx : idx <= Len(documents))
    IN  [i \in 1..Len(kept) |->
            [idx |-> kept[i], document |-> documents[kept[i]],
             metadata |-> IF kept[i] <= Len(metadata) THEN metadata[kept[i]]
                          ELSE None]]

\* RetrieverAgent._generate_reason; neither the documents nor the client
\* context carry a company_size, so that comparison is None == None
GenerateReason(doc, industry) ==
    (IF doc.similarity > 90 THEN <<"Very high semantic similarity">>
     ELSE IF doc.similarity > 80 THEN <<"High semantic similarity">>
     ELSE <<>>)
    \o (IF doc.industry = industry THEN <<"Same industry">> ELSE <<>>)
    \o <<"Similar company size">>
    \o (IF doc.win_outcome THEN <<"From winning proposal">> ELSE <<>>)

\* RetrievedContent built from one search result
RetrievedContent(doc, industry) ==
    [text |-> doc.text, relevance_score |-> doc.similarity,
     reason |-> GenerateReason(doc, industry),
     last_used |-> doc.last_used, win_outcome |-> doc.win_outcome]

\* _rerank.calculate_final_score in thousandths: 0.4 * relevance_score,
\* the constant 0.3, 0.2 or 0.1 for last_used, 0.1 or 0.0 for win_outcome
CalculateFinalScore(content) ==
    4 * content.relevance_score + 300
    + (IF content.last_used THEN 200 ELSE 100)
    + (IF content.win_outcome THEN 100 ELSE 0)

\* list.sort(key=calculate_final_score, reverse=True): stable, so entries of
\* equal score keep their order
RECURSIVE Rerank(_)
Rerank(content_list) ==
    IF content_list = <<>> THEN <<>>
    ELSE LET sorted == Rerank(SubSeq(content_list, 1, Len(content_list) - 1))
             x == content_list[Len(content_list)]
             ahead == {i \in 1..Len(sorted) :
                        CalculateFinalScore(sorted[i]) >= CalculateFinalScore(x)}
             k == Cardinality(ahead)
         IN  SubSeq(sorted, 1, k) \o <<x>> \o SubSeq(sorted, k + 1, Len(sorted))

\* RetrieverAgent.retrieve: the exception of the search propagates
RetrieverRetrieve(docs, industry, top_k, encoder, hits) ==
    LET search == VectorSearch(docs, top_k, encoder, hits)
        content == [i \in 1..Len(search.results) |->
                        RetrievedContent(search.results[i], industry)]
    IN  [called |-> TRUE, raised |-> ~search.ok, indexed |-> Len(docs),
         industry |-> industry, top_k |-> top_k,
         retrieved_content |-> IF search.ok THEN Take(Rerank(content), top_k)
                               ELSE <<>>]

\* ------------------------------------------------------------------------
\* GeneratorAgent and ReviewerAgent (agents/generator.py, agents/reviewer.py)

\* client_context.company_name
CompanyName == <<"A","c","m","e"," ","C","o","r","p">>

\* texts the generative capability returns for a response prompt
DraftTailored ==
    <<"F","o","r"," ","A","c","m","e"," ","C","o","r","p"," ","t","h","e"," ","p","l","a","t","f","o","r","m"," ","k","e","e","p","s"," ","a"," ","9","9",".","9"," ","p","e","r","c","e","n","t"," ","m","o","n","t","h","l","y"," ","u","p","t","i","m","e",","," ","b","a","c","k","e","d"," ","b","y"," ","s","e","r","v","i","c","e"," ","c","r","e","d","i","t","s"," ","a","n","d"," ","a"," ","n","a","m","e","d"," ","s","u","p","p","o","r","t"," ","e","n","g","i","n","e","e","r",".">>

DraftBrief ==
    <<"A","c","m","e"," ","C","o","r","p"," ","i","s"," ","c","o","v","e","r","e","d",".">>

Drafts == {DraftTailored, DraftBrief}

\* draft_response of the except branch of generate_response
ErrorDraft == <<"[","E","r","r","o","r"," ","g","e","n","e","r","a","t","i","n","g"," ","r","e","s","p","o","n","s","e","]">>

GenericPhrases == {<<"o","u","r"," ","c","o","m","p","a","n","y">>,
                   <<"w","e"," ","o","f","f","e","r">>,
                   <<"l","e","a","d","i","n","g"," ","p","r","o","v","i","d","e","r">>}

\* GeneratorAgent._check_flags
CheckFlags(response, company_name) ==
    (IF Len(response) < 100 THEN {"too_short"}
     ELSE IF Len(response) > 2000 THEN {"too_long"} ELSE {})
    \cup (IF ~Contains(Lower(response), Lower(company_name))
          THEN {"missing_client_name"} ELSE {})
    \cup (IF \E phrase \in GenericPhrases : Contains(Lower(response), phrase)
          THEN {"generic_language"} ELSE {})

FlagsOf == [d \in Drafts |-> CheckFlags(d, CompanyName)]

RECURSIVE SumRelevance(_)
SumRelevance(content_list) ==
    IF content_list = <<>> THEN 0
    ELSE Head(content_list).relevance_score + SumRelevance(Tail(content_list))

\* GeneratorAgent._calculate_confidence in units of 1 / ConfidenceOne: 0.5
\* without references, else the mean relevance of the first three, plus 0.1
\* up to 1.0 when any retrieved content comes from a won proposal
GeneratorConfidence(retrieved_content) ==
    IF retrieved_content = <<>> THEN ConfidenceOne \div 2
    ELSE LET top_scores == Take(retrieved_content, 3)
             avg_score == (SumRelevance(top_scores) * (ConfidenceOne \div 100))
                              \div Len(top_scores)
             has_win == \E i \in 1..Len(retrieved_content) :
                            retrieved_content[i].win_outcome
         IN  IF has_win THEN MinOf(avg_score + ConfidenceOne \div 10, ConfidenceOne)
             ELSE avg_score

\* GeneratorAgent.generate_response: an exception of the generation gives the
\* error draft with confidence 0.0
GenerateResponse(q_id, retrieved_content, llm) ==
    IF llm.ok
    THEN [question_id |-> q_id, draft_response |-> llm.text,
          confidence |-> GeneratorConfidence(retrieved_content),
          flags |-> FlagsOf[llm.text]]
    ELSE [question_id |-> q_id, draft_response |-> ErrorDraft,
          confidence |-> 0, flags |-> {"generation_failed"}]

GeneratorLLMOutcomes == {LLMRaise} \cup {LLMReturn(d) : d \in Drafts}

\* settings.high_confidence_threshold = 0.9 and
\* settings.medium_confidence_threshold = 0.7, read by ReviewerAgent.__init__
ReviewerHighThreshold == (9 * ConfidenceOne) \div 10
ReviewerMediumThreshold == (7 * ConfidenceOne) \div 10

\* the list review_responses appends a response of this confidence to
ReviewerBucket(confidence) ==
    IF confidence >= ReviewerHighThreshold THEN "high"
    ELSE IF confidence >= ReviewerMediumThreshold THEN "medium"
    ELSE "low"

ReviewerCount(confidences, bucket) ==
    Cardinality({i \in 1..Len(confidences) : ReviewerBucket(confidences[i]) = bucket})

HasPlaceholder(draft) ==
    Contains(draft, <<"[","E","r","r","o","r">>) \/ Contains(draft, <<"[","T","O","D","O","]">>)

PlaceholderIn == [d \in Drafts \cup {ErrorDraft} |-> HasPlaceholder(d)]

\* the issues review_responses records for one response, in order
ResponseIssues(response) ==
    (IF PlaceholderIn[response.draft_response]
     THEN <<[severity |-> "error", location |-> response.question_id,
             issue |-> "Contains placeholder or error text"]>> ELSE <<>>)
    \o (IF "generic_language" \in response.flags
        THEN <<[severity |-> "warning", location |-> response.question_id,
                issue |-> "Response contains generic language"]>> ELSE <<>>)
    \o (IF "missing_client_name" \in response.flags
        THEN <<[severity |-> "warning", location |-> response.question_id,
                issue |-> "Client name not mentioned in response"]>> ELSE <<>>)
    \o (IF "too_short" \in response.flags
        THEN <<[severity |-> "warning", location |-> response.question_id,
                issue |-> "Response is too brief"]>> ELSE <<>>)

RECURSIVE ReviewIssues(_)
ReviewIssues(responses) ==
    IF responses = <<>> THEN <<>>
    ELSE ResponseIssues(Head(responses)) \o ReviewIssues(Tail(responses))

\* a review that asks for human review only above one half of low answers
ReviewResponses_HalfLow(responses, total_expected) ==
    LET confidences == [i \in 1..Len(responses) |-> responses[i].confidence]
        low == ReviewerCount(confidences, "low")
        issues == ReviewIssues(responses)
                  \o (IF Len(responses) < total_expected
                      THEN <<[severity |-> "error", location |-> "Overall",
                              issue |-> "Only some questions answered"]>>
                      ELSE <<>>)
        has_errors == \E i \in 1..Len(issues) : issues[i].severity = "error"
        has_warnings == \E i \in 1..Len(issues) : issues[i].severity = "warning"
    IN  [compliance_status |-> IF has_errors THEN "FAIL"
                               ELSE IF has_warnings THEN "WARNING" ELSE "PASS",
         issues_found |-> issues,
         confidence_breakdown |->
             [high_confidence |-> ReviewerCount(confidences, "high"),
              medium_confidence |-> ReviewerCount(confidences, "medium"),
              low_confidence |-> low],
         overall_readiness |->
             IF 2 * low > Len(responses) THEN "NEEDS_REVIEW"
             ELSE IF has_errors THEN "NOT_READY"
             ELSE IF has_warnings THEN "READY_WITH_REVIEW" ELSE "READY"]

\* ReviewerAgent.review_responses(responses, rfp_analysis) with
\* rfp_analysis.total_questions = total_expected; the double comparison
\* len(low_confidence) > len(responses) * 0.3 agrees with 10 * low > 3 * total
\* for every list length up to 100000
ReviewResponses(responses, total_expected) ==
    LET confidences == [i \in 1..Len(responses) |-> responses[i].confidence]
        low == ReviewerCount(confidences, "low")
        issues == ReviewIssues(responses)
                  \o (IF Len(responses) < total_expected
                      THEN <<[severity |-> "error", location |-> "Overall",
                              issue |-> "Only some questions answered"]>>
                      ELSE <<>>)
        has_errors == \E i \in 1..Len(issues) : issues[i].severity = "error"
        has_warnings == \E i \in 1..Len(issues) : issues[i].severity = "warning"
    IN  [compliance_status |-> IF has_errors THEN "FAIL"
                               ELSE IF has_warnings THEN "WARNING" ELSE "PASS",
         issues_found |-> issues,
         confidence_breakdown |->
             [high_confidence |-> ReviewerCount(confidences, "high"),
              medium_confidence |-> ReviewerCount(confidences, "medium"),
              low_confidence |-> low],
         overall_readiness |->
             IF 10 * low > 3 * Len(responses) THEN "NEEDS_REVIEW"
             ELSE IF has_errors THEN "NOT_READY"
             ELSE IF has_warnings THEN "READY_WITH_REVIEW" ELSE "READY"]

\* ------------------------------------------------------------------------
\* LLMService.generate_structured and MetadataExtractor.extract_from_content

StartsWith(s, p) == Len(s) >= Len(p) /\ SubSeq(s, 1, Len(p)) = p
EndsWithSeq(s, p) == Len(s) >= Len(p) /\ SubSeq(s, Len(s) - Len(p) + 1, Len(s)) = p

\* the character U+0060, which a string of the module cannot hold
Backtick == "U+0060"

Fence == <<Backtick,Backtick,Backtick>>
FenceJson == <<Backtick,Backtick,Backtick,"j","s","o","n">>

\* texts the generative capability returns for a structured prompt
\* a JSON object
RespObject ==
    <<"{","\"","i","n","d","u","s","t","r","y","\"",":","\"","F","i","n","a","n","c","e","\"","}">>

\* the object in a markdown code block
RespFenced ==
    <<Backtick,Backtick,Backtick,"j","s","o","n","\n","{","\"","i","n","d","u","s","t","r","y","\"",":","\"","F","i","n","a","n","c","e","\"","}","\n",Backtick,Backtick,Backtick>>

\* the object with text around it
RespEmbedded ==
    <<"H","e","r","e",":"," ","{","\"","i","n","d","u","s","t","r","y","\"",":","\"","F","i","n","a","n","c","e","\"","}"," ","o","k">>

\* no object at all
RespNoObject ==
    <<"N","o"," ","d","a","t","a">>

\* braces around something that is not JSON
RespUnquoted ==
    <<"{","i","n","d","u","s","t","r","y",":"," ","F","i","n","a","n","c","e","}">>

\* two objects, which the greedy scan takes as one
RespTwoObjects ==
    <<"{","\"","a","\"",":","\"","x","\"","}"," ","a","n","d"," ","{","\"","b","\"",":","\"","y","\"","}">>

StructuredResponses ==
    {RespObject, RespFenced, RespEmbedded, RespNoObject, RespUnquoted, RespTwoObjects}

\* generate_structured, lines 104-110: strip and removal of the code fences
Unfence(response) ==
    LET stripped == Strip(response)
        a == IF StartsWith(stripped, FenceJson)
             THEN SubSeq(stripped, 8, Len(stripped)) ELSE stripped
        b == IF StartsWith(a, Fence) THEN SubSeq(a, 4, Len(a)) ELSE a
    IN  IF EndsWithSeq(b, Fence) THEN SubSeq(b, 1, Len(b) - 3) ELSE b

\* a JSON string without escapes
IsJsonString(s) ==
    /\ Len(s) >= 2
    /\ s[1] = "\"" /\ s[Len(s)] = "\""
    /\ \A i \in 2..(Len(s) - 1) : s[i] # "\""

\* json.loads on the sample responses and their parts: an object of one
\* string member parses, everything else they hold raises JSONDecodeError
JsonLoads(s) ==
    LET t == DropWhileEnd(DropWhile(s, Whitespace \cup {"\r"}), Whitespace \cup {"\r"})
        inner == SubSeq(t, 2, Len(t) - 1)
        parts == Split(inner, ":")
    IN  IF /\ Len(t) >= 2 /\ t[1] = "{" /\ t[Len(t)] = "}"
           /\ Len(parts) = 2
           /\ IsJsonString(Strip(parts[1])) /\ IsJsonString(Strip(parts[2]))
        THEN [ok |-> TRUE,
              value |-> [key |-> SubSeq(Strip(parts[1]), 2, Len(Strip(parts[1])) - 1),
                         value |-> SubSeq(Strip(parts[2]), 2, Len(Strip(parts[2])) - 1)]]
        ELSE [ok |-> FALSE, value |-> <<>>]

\* re.search(r"\{.*\}", response, re.DOTALL): from the first "{" to the last "}"
ScanObject(response) ==
    IF \E i, j \in 1..Len(response) : i < j /\ response[i] = "{" /\ response[j] = "}"
    THEN LET i == FirstIn(response, {"{"})
             j == CHOOSE k \in 1..Len(response) :
                    /\ response[k] = "}"
                    /\ \A l \in (k + 1)..Len(response) : response[l] # "}"
         IN  Some(SubSeq(response, i, j))
    ELSE None

\* a generate_structured that raises as soon as the response does not parse
GenerateStructured_NoScan(llm) ==
    IF ~llm.ok
    THEN [calls |-> 1, raised |-> TRUE, scanned |-> FALSE, value |-> None]
    ELSE LET response == Unfence(llm.text)
             direct == JsonLoads(response)
         IN  IF direct.ok
             THEN [calls |-> 1, raised |-> FALSE, scanned |-> FALSE,
                   value |-> Some(direct.value)]
             ELSE [calls |-> 1, raised |-> TRUE, scanned |-> FALSE, value |-> None]

\* LLMService.generate_structured: the exception of generate propagates; a
\* response that does not parse is scanned once for an embedded object
GenerateStructured(llm) ==
    IF ~llm.ok
    THEN [calls |-> 1, raised |-> TRUE, scanned |-> FALSE, value |-> None]
    ELSE LET response == Unfence(llm.text)
             direct == JsonLoads(response)
             found == ScanObject(response)
             second == IF found # None THEN JsonLoads(found[1])
                       ELSE [ok |-> FALSE, value |-> <<>>]
         IN  IF direct.ok
             THEN [calls |-> 1, raised |-> FALSE, scanned |-> FALSE,
                   value |-> Some(direct.value)]
             ELSE IF second.ok
             THEN [calls |-> 1, raised |-> FALSE, scanned |-> TRUE,
                   value |-> Some(second.value)]
             ELSE [calls |-> 1, raised |-> TRUE, scanned |-> TRUE, value |-> None]

StructuredLLMOutcomes == {LLMRaise} \cup {LLMReturn(r) : r \in StructuredResponses}

StructuredOf == [llm \in StructuredLLMOutcomes |-> GenerateStructured(llm)]

\* most fragments of a generated document
MaxFragments == 2

\* what the heuristic looks for, and what the documents are put together from
Fragment1 == <<"h","e","a","l","t","h","c","a","r","e">>
Fragment2 == <<"f","i","n","a","n","c","e">>
Fragment3 == <<"P","r","i","c","i","n","g">>
Fragment4 == <<"l","e","g","a","l">>
Fragment5 == <<"2","0","2","5","-","0","5","-","2","0">>
Fragment6 == <<"M","a","y"," ","2","0",","," ","2","0","2","5">>
Fragments == {Fragment1, Fragment2, Fragment3, Fragment4, Fragment5, Fragment6}

RECURSIVE FragmentTexts(_)
FragmentTexts(n) ==
    IF n = 0 THEN {<<>>}
    ELSE FragmentTexts(n - 1)
         \cup {t \o <<" ">> \o f : t \in FragmentTexts(n - 1) \ {<<>>}, f \in Fragments}
         \cup Fragments

MetadataTexts == FragmentTexts(MaxFragments)

\* industry_keywords, in the order of the dictionary
IndustryKeywords ==
    << <<<<"s","e","m","i","c","o","n","d","u","c","t","o","r">>, "Semiconductor">>,
       <<<<"h","e","a","l","t","h","c","a","r","e">>, "Healthcare">>,
       <<<<"f","i","n","a","n","c","e">>, "Finance">>,
       <<<<"t","e","c","h","n","o","l","o","g","y">>, "Technology">>,
       <<<<"m","a","n","u","f","a","c","t","u","r","i","n","g">>, "Manufacturing">>,
       <<<<"r","e","t","a","i","l">>, "Retail">> >>

MonthNames ==
    { <<"J","a","n">>,
      <<"F","e","b">>,
      <<"M","a","r">>,
      <<"A","p","r">>,
      <<"M","a","y">>,
      <<"J","u","n">>,
      <<"J","u","l">>,
      <<"A","u","g">>,
      <<"S","e","p">>,
      <<"O","c","t">>,
      <<"N","o","v">>,
      <<"D","e","c">> }

AllDigits(s) == \A i \in 1..Len(s) : s[i] \in Digits

\* r"\d{4}-\d{2}-\d{2}" matching at position i: the length matched, or 0
IsoDateAt(s, i) ==
    IF /\ i + 9 <= Len(s)
       /\ AllDigits(SubSeq(s, i, i + 3)) /\ s[i + 4] = "-"
       /\ AllDigits(SubSeq(s, i + 5, i + 6)) /\ s[i + 7] = "-"
       /\ AllDigits(SubSeq(s, i + 8, i + 9))
    THEN 10 ELSE 0

\* r" \d{1,2},? \d{4}" matching at position i, greedy: the length or 0
DayYearAt(s, i) ==
    LET try(days, comma) ==
            LET y == i + 1 + days + comma + 1
            IN  /\ y + 3 <= Len(s)
                /\ s[i] = " "
                /\ AllDigits(SubSeq(s, i + 1, i + days))
                /\ (comma = 1 => s[i + 1 + days] = ",")
                /\ s[y - 1] = " "
                /\ AllDigits(SubSeq(s, y, y + 3))
    IN  IF i > Len(s) THEN 0
        ELSE IF try(2, 1) THEN 9
        ELSE IF try(2, 0) THEN 8
        ELSE IF try(1, 1) THEN 8
        ELSE IF try(1, 0) THEN 7
        ELSE 0

\* the month-name pattern matching at position i: the length matched, or 0
MonthDateAt(s, i) ==
    IF i + 2 <= Len(s) /\ SubSeq(s, i, i + 2) \in MonthNames
    THEN LET rest == SubSeq(s, i + 3, Len(s))
             letters == Len(rest) - Len(DropWhile(rest, {LowerChars[k] : k \in 1..26}))
             tail == DayYearAt(s, i + 3 + letters)
         IN  IF tail > 0 THEN 3 + letters + tail ELSE 0
    ELSE 0

\* re.findall(pattern, text) from position i, MatchAt giving the match length
RECURSIVE FindAll(_, _, _)
FindAll(MatchAt(_, _), s, i) ==
    IF i > Len(s) THEN <<>>
    ELSE LET n == MatchAt(s, i)
         IN  IF n > 0 THEN <<SubSeq(s, i, i + n - 1)>> \o FindAll(MatchAt, s, i + n)
             ELSE FindAll(MatchAt, s, i + 1)

RECURSIVE FirstIndustry(_, _)
FirstIndustry(text_lower, k) ==
    IF k > Len(IndustryKeywords) THEN None
    ELSE IF Contains(text_lower, IndustryKeywords[k][1]) THEN Some(IndustryKeywords[k][2])
    ELSE FirstIndustry(text_lower, k + 1)

\* MetadataExtractor._fallback_extraction: a key the code does not set is None
MetadataFallback(text) ==
    LET text_lower == Lower(text)
        has(w) == Contains(text_lower, w)
        dates == FindAll(IsoDateAt, text, 1) \o FindAll(MonthDateAt, text, 1)
        categories ==
            (IF has(<<"t","a","l","e","n","t">>) \/ has(<<"h","i","r","i","n","g">>) THEN <<"talent_intelligence">> ELSE <<>>)
            \o (IF has(<<"s","k","i","l","l">>) \/ has(<<"t","a","x","o","n","o","m","y">>) THEN <<"skills_taxonomy">> ELSE <<>>)
            \o (IF has(<<"p","r","i","c","e">>) \/ has(<<"p","r","i","c","i","n","g">>) \/ has(<<"c","o","s","t">>) THEN <<"pricing">> ELSE <<>>)
            \o (IF has(<<"t","e","c","h","n","i","c","a","l">>) \/ has(<<"a","r","c","h","i","t","e","c","t","u","r","e">>) THEN <<"technical">> ELSE <<>>)
            \o (IF has(<<"l","e","g","a","l">>) \/ has(<<"c","o","m","p","l","i","a","n","c","e">>) THEN <<"legal">> ELSE <<>>)
    IN  [industry |-> FirstIndustry(text_lower, 1),
         timeline_mentions |-> IF dates # <<>> THEN Some(Take(dates, 5)) ELSE None,
         categories |-> IF categories # <<>> THEN categories ELSE <<"general">>]

MetadataFallbackOf == [t \in MetadataTexts |-> MetadataFallback(t)]

\* MetadataExtractor.extract_from_content: without a generative capability,
\* and on any exception of generate_structured, the heuristic result
ExtractFromContent(text, has_llm, llm) ==
    IF ~has_llm
    THEN [structured |-> None, raised |-> FALSE, heuristic |-> TRUE,
          metadata |-> MetadataFallbackOf[text]]
    ELSE LET result == StructuredOf[llm]
         IN  IF result.raised
             THEN [structured |-> Some(result), raised |-> FALSE, heuristic |-> TRUE,
                   metadata |-> MetadataFallbackOf[text]]
             ELSE [structured |-> Some(result), raised |-> FALSE, heuristic |-> FALSE,
                   metadata |-> result.value[1]]

\* Workflow store (models/database.py)

WorkflowIds == {"WF-RFP-1"}
Clients == {"Acme Corp"}
Today == "20261105"

StoreOutcomes == {"ok", "error"}

NoRecord ==
    [exists |-> FALSE, state |-> "", client_name |-> "", rfp_analysis |-> None,
     generated_responses |-> None, review_result |-> None,
     output_file_path |-> None, completed |-> FALSE, updated_at |-> 0]

\* create_workflow; updated_at counts the writes of the record
NewWorkflow(client_name) ==
    [exists |-> TRUE, state |-> "created", client_name |-> client_name,
     rfp_analysis |-> None, generated_responses |-> None, review_result |-> None,
     output_file_path |-> None, completed |-> FALSE, updated_at |-> 1]

\* a create_workflow that replaces the record of a workflow_id that exists
CreateWorkflow_Replace(d, w, client_name, outcome) ==
    IF outcome # "ok" THEN [db |-> d, raised |-> TRUE]
    ELSE [db |-> [d EXCEPT ![w] = NewWorkflow(client_name)], raised |-> FALSE]

\* create_workflow: workflow_id is a unique column, so the commit of a second
\* row with the same workflow_id raises; the rollback leaves the table as it
\* was
CreateWorkflow(d, w, client_name, outcome) ==
    IF d[w].exists \/ outcome # "ok" THEN [db |-> d, raised |-> TRUE]
    ELSE [db |-> [d EXCEPT ![w] = NewWorkflow(client_name)], raised |-> FALSE]

\* An update_workflow_* call raises when the record is missing or when the
\* session fails; the rollback then leaves the store as it was
WriteRaises(d, w, outcome) == ~d[w].exists \/ outcome # "ok"

\* update_workflow_state that adds the record it does not find
UpdateWorkflowState_Upsert(d, w, state, outcome) ==
    IF outcome # "ok" THEN d
    ELSE IF ~d[w].exists THEN [d EXCEPT ![w] = [NewWorkflow("") EXCEPT !.state = state]]
    ELSE [d EXCEPT ![w].state = state, ![w].updated_at = @ + 1]

\* update_workflow_state: ValueError without a record
UpdateWorkflowState(d, w, state, outcome) ==
    IF WriteRaises(d, w, outcome) THEN d
    ELSE [d EXCEPT ![w].state = state, ![w].updated_at = @ + 1]

UpdateWorkflowAnalysis(d, w, rfp_analysis, outcome) ==
    IF WriteRaises(d, w, outcome) THEN d
    ELSE [d EXCEPT ![w].rfp_analysis = Some(rfp_analysis), ![w].updated_at = @ + 1]

\* update_workflow_responses whose query has no filter_by(workflow_id=...):
\* every stored record gets the list
UpdateWorkflowResponses_EveryRow(d, w, responses, outcome) ==
    IF WriteRaises(d, w, outcome) THEN d
    ELSE [v \in DOMAIN d |->
            IF d[v].exists
            THEN [d[v] EXCEPT !.generated_responses = Some(responses),
                              !.updated_at = @ + 1]
            ELSE d[v]]

UpdateWorkflowResponses(d, w, responses, outcome) ==
    IF WriteRaises(d, w, outcome) THEN d
    ELSE [d EXCEPT ![w].generated_responses = Some(responses), ![w].updated_at = @ + 1]

UpdateWorkflowReview(d, w, review_result, outcome) ==
    IF WriteRaises(d, w, outcome) THEN d
    ELSE [d EXCEPT ![w].review_result = Some(review_result), ![w].updated_at = @ + 1]

\* update_workflow_final that stores the path but leaves the state alone
UpdateWorkflowFinal_NoState(d, w, output_file_path, state, outcome) ==
    IF WriteRaises(d, w, outcome) THEN d
    ELSE [d EXCEPT ![w].output_file_path =
                        IF output_file_path # None THEN output_file_path ELSE @,
                   ![w].completed = TRUE,
                   ![w].updated_at = @ + 1]

\* update_workflow_final: output_file_path is None or Some(path); a falsy
\* path leaves the stored one alone
UpdateWorkflowFinal(d, w, output_file_path, state, outcome) ==
    IF WriteRaises(d, w, outcome) THEN d
    ELSE [d EXCEPT ![w].state = state,
                   ![w].output_file_path =
                        IF output_file_path # None THEN output_file_path ELSE @,
                   ![w].completed = TRUE,
                   ![w].updated_at = @ + 1]

\* a read that flushes the loaded row, which renews its updated_at
GetWorkflow_TouchesRecord(d, w) ==
    [snapshot |-> IF d[w].exists THEN Some(d[w]) ELSE None,
     db |-> IF d[w].exists THEN [d EXCEPT ![w].updated_at = @ + 1] ELSE d]

\* get_workflow: the dictionary returned (None if there is no such record)
\* and the store after the call
GetWorkflow(d, w) ==
    [snapshot |-> IF d[w].exists THEN Some(d[w]) ELSE None,
     db |-> d]

\* workflow.get("rfp_analysis", {}).get("questions", [])
StoredQuestions(rec) == IF rec.rfp_analysis = None THEN <<>> ELSE rec.rfp_analysis[1].questions

\* workflow.get("generated_responses", [])
StoredResponses(rec) == IF rec.generated_responses = None THEN <<>> ELSE rec.generated_responses[1]

\* ------------------------------------------------------------------------
\* RFPProcessorService (services/rfp_processor.py)

HighConfidence == 24000
MediumConfidence == 15000

\* the dictionary stored for one answered question
FormatResponse(a) ==
    [question |-> a.question, answer |-> a.answer, sources |-> a.sources,
     confidence |-> a.confidence]

\* the "error response" of the per-question except branch
ErrorResponse(question) ==
    [question |-> question, answer |-> PlaceholderAnswer, sources |-> <<>>,
     confidence |-> 0]

CountHigh(responses) ==
    Cardinality({i \in 1..Len(responses) : responses[i].confidence >= HighConfidence})
CountMedium(responses) ==
    Cardinality({i \in 1..Len(responses) :
        /\ MediumConfidence <= responses[i].confidence
        /\ responses[i].confidence < HighConfidence})
CountLow(responses) ==
    Cardinality({i \in 1..Len(responses) : responses[i].confidence < MediumConfidence})

RECURSIVE IssuesFrom(_, _)
IssuesFrom(responses, i) ==
    IF i > Len(responses) THEN <<>>
    ELSE IF responses[i].confidence < MediumConfidence
         THEN <<[question_index |-> i - 1, question |-> responses[i].question,
                 issue |-> "Low confidence answer - may need manual review",
                 severity |-> "warning"]>> \o IssuesFrom(responses, i + 1)
         ELSE IssuesFrom(responses, i + 1)

\* The (high, medium, low) counts of up to six answers for which the double
\* (high * 1.0 + medium * 0.7 + low * 0.3) / total is 0.7999999999999999 or
\* 0.5999999999999999, one step under the exact value 0.8 or 0.6; for all
\* other counts the double compares with 0.8 and 0.6 as the exact value does
FloatRoundsBelow == {<<1, 2, 0>>, <<0, 3, 1>>, <<2, 4, 0>>}

\* completeness_score >= k / 10, as evaluated in double precision
ScoreAtLeast(high, medium, low, k) ==
    LET tenths == high * 10 + medium * 7 + low * 3
        total == high + medium + low
    IN  IF <<high, medium, low>> \in FloatRoundsBelow
        THEN tenths > k * total
        ELSE tenths >= k * total

\* a review whose issue loop starts at the second answer
QualityReview_SkipFirstIssue(responses) ==
    LET high == CountHigh(responses)
        medium == CountMedium(responses)
        low == CountLow(responses)
        total == Len(responses)
        tenths == high * 10 + medium * 7 + low * 3
    IN  [overall_quality |-> IF ScoreAtLeast(high, medium, low, 8) THEN "high"
                             ELSE IF ScoreAtLeast(high, medium, low, 6) THEN "medium"
                             ELSE "low",
         completeness_tenths |-> tenths,
         total |-> total,
         high_confidence_count |-> high,
         medium_confidence_count |-> medium,
         low_confidence_count |-> low,
         issues_found |-> IssuesFrom(responses, 2)]

\* _step_3_quality_review: completeness_score is completeness_tenths /
\* (10 * total)
QualityReview(responses) ==
    LET high == CountHigh(responses)
        medium == CountMedium(responses)
        low == CountLow(responses)
        total == Len(responses)
        tenths == high * 10 + medium * 7 + low * 3
    IN  [overall_quality |-> IF ScoreAtLeast(high, medium, low, 8) THEN "high"
                             ELSE IF ScoreAtLeast(high, medium, low, 6) THEN "medium"
                             ELSE "low",
         completeness_tenths |-> tenths,
         total |-> total,
         high_confidence_count |-> high,
         medium_confidence_count |-> medium,
         low_confidence_count |-> low,
         issues_found |-> IssuesFrom(responses, 1)]

\* os.path.join(settings.output_dir, f"RFP_Response_{client_slug}_{timestamp}.docx")
OutputPath(client_name) == <<"RFP_Response", client_name, Today>>

FormatterOutcomes == {"ok", "raise"}

\* ------------------------------------------------------------------------
VARIABLES
    cache,   \* QuestionCache files, by key
    prev,    \* per text: the list the latest extract() of it returned
    ext,     \* the latest direct extract() call
    db,      \* the workflows table, by workflow_id
    pc,      \* per workflow: position of its process_rfp_async run
    rfp,     \* per workflow: the rfp_text argument
    loc,     \* per workflow: local variables of the run
    hist,    \* per workflow: what the run has done so far
    qa,      \* the latest QAAgent.ask call
    calls,   \* per background thread: its extract() call in progress
    poll,    \* what the latest pair of status requests of a client saw
    kb,      \* VectorStore.documents with their metadata, in index order
    ret,     \* the latest RetrieverAgent.retrieve call
    clr,     \* the latest QuestionCache.clear call and the stats read after it
    orch,    \* the OrchestratorAgent.process_rfp call: its position and workflow
    fb,      \* the latest direct _fallback_extraction call
    sg,      \* the latest MetadataExtractor.extract_from_content call
    vs,      \* the VectorStore shared by the endpoints, statement by statement
    up,      \* the upload requests: the latest one, and the tasks scheduled
    upd      \* the latest direct update_workflow_* call

vars == <<cache, prev, ext, db, pc, rfp, loc, hist, qa, calls, poll, kb, ret, clr, orch, fb, sg, vs, up, upd>>
extractorVars == <<cache, prev, ext, calls>>
pipelineVars == <<db, pc, rfp, loc, hist, qa, poll>>
agentVars == <<kb, ret, orch>>
helperVars == <<fb, sg, vs, up, upd>>
serviceVars == <<agentVars, clr, helperVars>>

NoPrev == [has |-> FALSE, questions |-> <<>>, stored |-> FALSE]

\* the threads that run process_rfp_background for concurrent uploads
Threads == {"thread-1", "thread-2"}

NoPoll == [polled |-> FALSE, identical |-> FALSE, midGeneration |-> FALSE]

NoCall == [at |-> "idle", text |-> <<>>, questions |-> <<>>, ioFailed |-> FALSE]

NoLocals == [analysis |-> <<>>, questions |-> <<>>, i |-> 0, generated |-> <<>>,
             exc |-> "", raised |-> ""]

NoHistory == [handled |-> {}, formatter |-> "none", errorWrite |-> "none",
              backgroundWrite |-> "none", cacheFailed |-> FALSE]

NoRetrieval == [called |-> FALSE, raised |-> FALSE, indexed |-> 0, industry |-> "",
                top_k |-> 0, retrieved_content |-> <<>>]

NoClear == [cleared |-> FALSE, count |-> 0, failed |-> FALSE, stats |-> None]

NoFallbackCall == [called |-> FALSE, text |-> <<>>, questions |-> <<>>]

NoMetadataCall == [called |-> FALSE, text |-> <<>>, llm |-> None, result |-> None]

\* a new VectorStore: an empty index and empty lists, no call in progress;
\* added lists the arguments of the add_documents calls in call order
NoStore == [index |-> <<>>, documents |-> <<>>, metadata |-> <<>>, added |-> <<>>,
            add |-> "idle", search |-> "idle", hits |-> <<>>, raised |-> FALSE,
            results |-> <<>>]

\* no upload request made yet; tasks counts the add_task calls per workflow_id
NoUpload == [requested |-> FALSE, workflow_id |-> "", raised |-> FALSE,
             tasks |-> [w \in WorkflowIds |-> 0]]

\* no update_workflow_* call made yet
NoUpdate == [called |-> FALSE, operation |-> "", workflow_id |-> "", raised |-> FALSE]

\* no process_rfp call made yet
NoRun == [at |-> "idle", state |-> "none", questions |-> 0, total_questions |-> 0,
          responses |-> <<>>, review_result |-> None, formatter |-> "none",
          output_file_path |-> None]

\* the services as constructed: a new index, no call made yet
InitServices ==
    /\ kb = <<>>
    /\ ret = NoRetrieval
    /\ clr = NoClear
    /\ orch = NoRun
    /\ fb = NoFallbackCall
    /\ sg = NoMetadataCall
    /\ vs = NoStore
    /\ up = NoUpload
    /\ upd = NoUpdate

Init ==
    /\ InitServices
    /\ cache = [k \in CacheKeys |-> AbsentEntry]
    /\ prev = [t \in Texts |-> NoPrev]
    /\ ext = [text |-> <<>>, questions |-> <<>>, llmCalls |-> 0,
              llm |-> None, readOutcome |-> "ok", prev |-> NoPrev,
              readFailed |-> FALSE, writeFailed |-> FALSE]
    /\ db = [w \in WorkflowIds |-> NoRecord]
    /\ pc = [w \in WorkflowIds |-> "idle"]
    /\ rfp = [w \in WorkflowIds |-> <<>>]
    /\ loc = [w \in WorkflowIds |-> NoLocals]
    /\ hist = [w \in WorkflowIds |-> NoHistory]
    /\ qa = [workflow |-> "", index |-> 0, search |-> SearchRaise, llm |-> "ok",
             result |-> Ask(<<>>, SearchRaise, "ok")]
    /\ calls = [th \in Threads |-> NoCall]
    /\ poll = NoPoll

\* ---- direct use of the extractor and the cache -------------------------

\* LLMQuestionExtractor.extract(t)
ExtractCall(t) ==
    /\ \E readOutcome \in ReadOutcomes, llm \in ExtractLLMOutcomes,
          writeOutcome \in WriteOutcomes :
        LET r == Extract(cache, t, readOutcome, llm, writeOutcome)
        IN  /\ cache' = r.cache
            /\ ext' = [text |-> t, questions |-> r.questions, llmCalls |-> r.llmCalls,
                       llm |-> IF r.hit THEN None ELSE Some(llm),
                       readOutcome |-> readOutcome, prev |-> prev[t],
                       readFailed |-> ReadFails(cache, t, readOutcome),
                       writeFailed |-> ~r.hit /\ r.questions # <<>> /\ writeOutcome # "ok"]
            /\ prev' = [prev EXCEPT ![t] = [has |-> TRUE, questions |-> r.questions,
                                            stored |-> r.hit \/ r.stored]]
    /\ UNCHANGED <<pipelineVars, calls, serviceVars>>

\* QuestionCache.clear(): unlinks the files one by one; an error stops it
\* after some of them
CacheClear ==
    /\ \E removed \in SUBSET CacheFiles(cache) :
        LET r == QuestionCacheClear(cache, removed)
        IN  /\ cache' = r.cache
            /\ clr' = [cleared |-> TRUE, count |-> r.count, failed |-> r.failed,
                       stats |-> None]
    /\ prev' = [t \in Texts |-> NoPrev]
    /\ UNCHANGED <<ext, pipelineVars, calls, agentVars, helperVars>>

\* QuestionCache.get_cache_stats()
CacheStatsCall ==
    /\ \E outcome \in ReadOutcomes :
        clr' = [clr EXCEPT !.stats = Some(GetCacheStats(cache, outcome).cache_count)]
    /\ UNCHANGED <<extractorVars, pipelineVars, agentVars, helperVars>>

\* ---- extract() as run by concurrent threads, statement by statement ------

\* extract, lines 45-47: cache.get and the early return on a hit
ExtractCheckCache(th, t) ==
    /\ calls[th].at \in {"idle", "returned"}
    /\ \E readOutcome \in ReadOutcomes :
        LET cached == CacheGet(cache, t, readOutcome)
        IN  calls' = [calls EXCEPT ![th] =
                [at |-> IF cached # None THEN "returned" ELSE "generate",
                 text |-> t,
                 questions |-> IF cached # None THEN cached[1] ELSE <<>>,
                 ioFailed |-> calls[th].ioFailed \/ ReadFails(cache, t, readOutcome)]]
    /\ UNCHANGED <<cache, prev, ext, pipelineVars, serviceVars>>

\* extract, lines 73-86 and 94-97: llm.generate, _parse_questions and the
\* fallback; an empty list is returned without a cache write
ExtractGenerate(th) ==
    /\ calls[th].at = "generate"
    /\ \E llm \in ExtractLLMOutcomes :
        LET parsed == IF llm.ok THEN ParsedOf[llm.text] ELSE <<>>
            questions == IF llm.ok /\ parsed # <<>> THEN parsed
                         ELSE FallbackOf[calls[th].text]
        IN  calls' = [calls EXCEPT ![th].questions = questions,
                                   ![th].at = IF questions # <<>> THEN "set"
                                              ELSE "returned"]
    /\ UNCHANGED <<cache, prev, ext, pipelineVars, serviceVars>>

\* extract, lines 89-92 and 100-103: cache.set and the return
ExtractCacheSet(th) ==
    /\ calls[th].at = "set"
    /\ \E writeOutcome \in WriteOutcomes :
        /\ cache' = CacheSet(cache, calls[th].text, calls[th].questions, writeOutcome)
        /\ calls' = [calls EXCEPT ![th].at = "returned",
                                   ![th].ioFailed = @ \/ writeOutcome # "ok"]
    /\ UNCHANGED <<prev, ext, pipelineVars, serviceVars>>

\* ---- direct use of the fallback extraction -------------------------------

\* most sentences of a generated input text
MaxSentences == 4

\* sentences the input texts are put together from: three that hold a
\* requirement phrase and one that does not
SampleSentences ==
    { <<"V","e","n","d","o","r"," ","m","u","s","t"," ","A",".">>,
      <<"E","x","p","l","a","i","n"," ","y","o","u","r"," ","B","!">>,
      <<"N","o","t","e"," ","C",".">>,
      <<"H","o","w"," ","d","o"," ","y","o","u"," ","D","?">> }

\* the texts of up to n sample sentences, repeats included
RECURSIVE SentenceTexts(_)
SentenceTexts(n) ==
    IF n = 0 THEN {<<>>}
    ELSE SentenceTexts(n - 1)
         \cup {t \o <<" ">> \o sentence :
                 t \in SentenceTexts(n - 1) \ {<<>>}, sentence \in SampleSentences}
         \cup SampleSentences

\* a text of 51 different requirement sentences
DocManyRequirements ==
    <<"V","e","n","d","o","r"," ","m","u","s","t"," ","A","A","."," ","V","e","n","d","o","r"," ","m","u","s","t"," ","A","B","."," ","V","e","n","d","o","r"," ","m","u","s","t"," ","A","C","."," ","V","e","n","d","o","r"," ","m","u","s","t"," ","A","D","."," ","V","e","n","d","o","r"," ","m","u","s","t"," ","A","E","."," ","V","e","n","d","o","r"," ","m","u","s","t"," ","A","F","."," ","V","e","n","d","o","r"," ","m","u","s","t"," ","A","G","."," ","V","e","n","d","o","r"," ","m","u","s","t"," ","A","H","."," ","V","e","n","d","o","r"," ","m","u","s","t"," ","A","I","."," ","V","e","n","d","o","r"," ","m","u","s","t"," ","A","J","."," ","V","e","n","d","o","r"," ","m","u","s","t"," ","A","K","."," ","V","e","n","d","o","r"," ","m","u","s","t"," ","A","L","."," ","V","e","n","d","o","r"," ","m","u","s","t"," ","A","M","."," ","V","e","n","d","o","r"," ","m","u","s","t"," ","A","N","."," ","V","e","n","d","o","r"," ","m","u","s","t"," ","A","O","."," ","V","e","n","d","o","r"," ","m","u","s","t"," ","A","P","."," ","V","e","n","d","o","r"," ","m","u","s","t"," ","A","Q","."," ","V","e","n","d","o","r"," ","m","u","s","t"," ","A","R","."," ","V","e","n","d","o","r"," ","m","u","s","t"," ","A","S","."," ","V","e","n","d","o","r"," ","m","u","s","t"," ","A","T","."," ","V","e","n","d","o","r"," ","m","u","s","t"," ","A","U","."," ","V","e","n","d","o","r"," ","m","u","s","t"," ","A","V","."," ","V","e","n","d","o","r"," ","m","u","s","t"," ","A","W","."," ","V","e","n","d","o","r"," ","m","u","s","t"," ","A","X","."," ","V","e","n","d","o","r"," ","m","u","s","t"," ","A","Y","."," ","V","e","n","d","o","r"," ","m","u","s","t"," ","A","Z","."," ","V","e","n","d","o","r"," ","m","u","s","t"," ","B","A","."," ","V","e","n","d","o","r"," ","m","u","s","t"," ","B","B","."," ","V","e","n","d","o","r"," ","m","u","s","t"," ","B","C","."," ","V","e","n","d","o","r"," ","m","u","s","t"," ","B","D","."," ","V","e","n","d","o","r"," ","m","u","s","t"," ","B","E","."," ","V","e","n","d","o","r"," ","m","u","s","t"," ","B","F","."," ","V","e","n","d","o","r"," ","m","u","s","t"," ","B","G","."," ","V","e","n","d","o","r"," ","m","u","s","t"," ","B","H","."," ","V","e","n","d","o","r"," ","m","u","s","t"," ","B","I","."," ","V","e","n","d","o","r"," ","m","u","s","t"," ","B","J","."," ","V","e","n","d","o","r"," ","m","u","s","t"," ","B","K","."," ","V","e","n","d","o","r"," ","m","u","s","t"," ","B","L","."," ","V","e","n","d","o","r"," ","m","u","s","t"," ","B","M","."," ","V","e","n","d","o","r"," ","m","u","s","t"," ","B","N","."," ","V","e","n","d","o","r"," ","m","u","s","t"," ","B","O","."," ","V","e","n","d","o","r"," ","m","u","s","t"," ","B","P","."," ","V","e","n","d","o","r"," ","m","u","s","t"," ","B","Q","."," ","V","e","n","d","o","r"," ","m","u","s","t"," ","B","R","."," ","V","e","n","d","o","r"," ","m","u","s","t"," ","B","S","."," ","V","e","n","d","o","r"," ","m","u","s","t"," ","B","T","."," ","V","e","n","d","o","r"," ","m","u","s","t"," ","B","U","."," ","V","e","n","d","o","r"," ","m","u","s","t"," ","B","V","."," ","V","e","n","d","o","r"," ","m","u","s","t"," ","B","W","."," ","V","e","n","d","o","r"," ","m","u","s","t"," ","B","X","."," ","V","e","n","d","o","r"," ","m","u","s","t"," ","B","Y",".">>

FallbackInputs == SentenceTexts(MaxSentences) \cup {DocManyRequirements}

\* _fallback_extraction on the input texts
FallbackResultOf == [t \in FallbackInputs |-> FallbackExtraction(t)]

\* LLMQuestionExtractor._fallback_extraction(t)
FallbackExtractionCall(t) ==
    /\ fb' = [called |-> TRUE, text |-> t, questions |-> FallbackResultOf[t]]
    /\ UNCHANGED <<extractorVars, pipelineVars, agentVars, clr, sg, vs, up, upd>>

NextFallback == \E t \in FallbackInputs : FallbackExtractionCall(t)

SpecFallback == Init /\ [][NextFallback]_vars

\* ---- direct use of the metadata extractor --------------------------------

\* MetadataExtractor.extract_from_content(text)
ExtractFromContentCall(text) ==
    /\ \E has_llm \in BOOLEAN, llm \in StructuredLLMOutcomes :
        /\ (~has_llm => llm = LLMRaise)
        /\ sg' = [called |-> TRUE, text |-> text,
                  llm |-> IF has_llm THEN Some(llm) ELSE None,
                  result |-> ExtractFromContent(text, has_llm, llm)]
    /\ UNCHANGED <<extractorVars, pipelineVars, agentVars, clr, fb, vs, up, upd>>

NextMetadata == \E text \in MetadataTexts : ExtractFromContentCall(text)

SpecMetadata == Init /\ [][NextMetadata]_vars

\* ---- the knowledge base and the retriever ---------------------------------

\* VectorStore.add_documents with one document
AddDocuments(doc) ==
    /\ Len(kb) < MaxDocs
    /\ kb' = Append(kb, doc)
    /\ UNCHANGED <<extractorVars, pipelineVars, ret, clr, orch, helperVars>>

\* VectorStore.clear
ClearIndex ==
    /\ kb # <<>>
    /\ kb' = <<>>
    /\ UNCHANGED <<extractorVars, pipelineVars, ret, clr, orch, helperVars>>

\* RetrieverAgent.retrieve(query, client_context, top_k)
Retrieve(industry, top_k) ==
    /\ \E encoder \in EncoderOutcomes,
          hits \in NearestOrders(kb, MinOf(top_k, Len(kb))) :
        ret' = RetrieverRetrieve(kb, industry, top_k, encoder, hits)
    /\ UNCHANGED <<extractorVars, pipelineVars, kb, clr, orch, helperVars>>

\* ---- add_knowledge and search_knowledge on the shared VectorStore --------

\* most add_documents calls
MaxAdds == 2

\* top_k of search_knowledge
SearchTopKs == {1, 2}

\* add_documents, lines 60-67, entered by add_knowledge on the event loop:
\* the embedding is computed and index.add starts
AddIndexBegin(arg) ==
    /\ vs.add = "idle"
    /\ Len(vs.added) < MaxAdds
    /\ vs' = [vs EXCEPT !.added = Append(@, arg), !.add = "index.add"]
    /\ UNCHANGED <<extractorVars, pipelineVars, agentVars, clr, fb, sg, up, upd>>

\* add_documents, line 67: index.add returns
AddIndexEnd ==
    /\ vs.add = "index.add"
    /\ vs' = [vs EXCEPT !.index = IndexOf(vs.added), !.add = "documents.extend"]
    /\ UNCHANGED <<extractorVars, pipelineVars, agentVars, clr, fb, sg, up, upd>>

\* add_documents, line 70: self.documents.extend(documents)
AddExtendDocuments ==
    /\ vs.add = "documents.extend"
    /\ vs' = [vs EXCEPT !.documents = Append(@, vs.added[Len(vs.added)].document),
                        !.add = "metadata.extend"]
    /\ UNCHANGED <<extractorVars, pipelineVars, agentVars, clr, fb, sg, up, upd>>

\* add_documents, lines 71-76: self.metadata.extend(...), and the return
AddExtendMetadata ==
    /\ vs.add = "metadata.extend"
    /\ vs' = [vs EXCEPT !.metadata = Append(@, vs.added[Len(vs.added)].metadata),
                        !.add = "idle"]
    /\ UNCHANGED <<extractorVars, pipelineVars, agentVars, clr, fb, sg, up, upd>>

\* search, lines 82-90, run by search_knowledge in a worker thread: the empty
\* list without documents, else index.search for min(k, len(documents))
\* positions.  An index.search that overlaps index.add reads the vectors
\* while they are written: it sees the index before or after the add, or fails
SearchIndex(top_k) ==
    /\ vs.search = "idle"
    /\ IF Len(vs.documents) = 0
       THEN vs' = [vs EXCEPT !.results = <<>>, !.hits = <<>>, !.raised = FALSE]
       ELSE LET n == MinOf(top_k, Len(vs.documents))
            IN  \/ \E hits \in NearestOrders(vs.index, n) :
                    vs' = [vs EXCEPT !.search = "collect", !.hits = hits,
                                     !.raised = FALSE, !.results = <<>>]
                \/ /\ vs.add = "index.add"
                   /\ \/ \E hits \in NearestOrders(IndexOf(vs.added), n) :
                            vs' = [vs EXCEPT !.search = "collect", !.hits = hits,
                                             !.raised = FALSE, !.results = <<>>]
                      \/ vs' = [vs EXCEPT !.raised = TRUE, !.hits = <<>>,
                                          !.results = <<>>]
    /\ UNCHANGED <<extractorVars, pipelineVars, agentVars, clr, fb, sg, up, upd>>

\* search, lines 93-110: the loop over the positions, and the return
SearchCollect ==
    /\ vs.search = "collect"
    /\ vs' = [vs EXCEPT !.search = "idle",
                        !.results = CollectResults(vs.hits, vs.documents, vs.metadata)]
    /\ UNCHANGED <<extractorVars, pipelineVars, agentVars, clr, fb, sg, up, upd>>

NextStore ==
    \/ \E arg \in AddArguments : AddIndexBegin(arg)
    \/ AddIndexEnd
    \/ AddExtendDocuments
    \/ AddExtendMetadata
    \/ \E top_k \in SearchTopKs : SearchIndex(top_k)
    \/ SearchCollect

SpecStore == Init /\ [][NextStore]_vars

\* ---- OrchestratorAgent.process_rfp ----------------------------------------

\* process_rfp up to the generation loop: analyze_rfp returns questions
\* questions and the total the analysis reports (none and 0 when it failed)
ProcessRfp(questions, total_questions) ==
    /\ orch.at = "idle"
    /\ orch' = [NoRun EXCEPT !.at = "generating", !.state = "generating",
                             !.questions = questions,
                             !.total_questions = total_questions]
    /\ UNCHANGED <<extractorVars, pipelineVars, kb, ret, clr, helperVars>>

\* one turn of the loop: retrieve(top_k=3), then generate_response; an
\* exception of the retrieval leaves process_rfp
GenerateNext ==
    /\ orch.at = "generating"
    /\ Len(orch.responses) < orch.questions
    /\ \E encoder \in EncoderOutcomes, llm \in GeneratorLLMOutcomes,
          hits \in NearestOrders(kb, MinOf(3, Len(kb))) :
        LET retrieval == RetrieverRetrieve(kb, ClientIndustry, 3, encoder, hits)
            response == GenerateResponse(Len(orch.responses) + 1,
                                         retrieval.retrieved_content, llm)
        IN  orch' = IF retrieval.raised THEN [orch EXCEPT !.at = "raised"]
                    ELSE [orch EXCEPT !.responses = Append(@, response)]
    /\ UNCHANGED <<extractorVars, pipelineVars, kb, ret, clr, helperVars>>

\* the review and the check for human review: NEEDS_REVIEW returns the
\* workflow in HUMAN_REVIEW, anything else goes on to the formatter
ReviewGenerated ==
    /\ orch.at = "generating"
    /\ Len(orch.responses) = orch.questions
    /\ LET review_result == ReviewResponses(orch.responses, orch.total_questions)
       IN  orch' = [orch EXCEPT
                !.review_result = Some(review_result),
                !.state = IF review_result.overall_readiness = "NEEDS_REVIEW"
                          THEN "human_review" ELSE "formatting",
                !.at = IF review_result.overall_readiness = "NEEDS_REVIEW"
                       THEN "returned" ELSE "formatting"]
    /\ UNCHANGED <<extractorVars, pipelineVars, kb, ret, clr, helperVars>>

\* format_rfp_response, then READY; its exception leaves process_rfp
FormatProposal ==
    /\ orch.at = "formatting"
    /\ \E outcome \in FormatterOutcomes :
        orch' = IF outcome = "ok"
                THEN [orch EXCEPT !.formatter = "ok",
                                  !.output_file_path = Some(<<"proposal", CompanyName, Today>>),
                                  !.state = "ready", !.at = "returned"]
                ELSE [orch EXCEPT !.formatter = "raise", !.at = "raised"]
    /\ UNCHANGED <<extractorVars, pipelineVars, kb, ret, clr, helperVars>>

\* ---- the pipeline -------------------------------------------------------

\* an exception leaves the try block of process_rfp_async
Raise(w, e) ==
    /\ pc' = [pc EXCEPT ![w] = "handler"]
    /\ loc' = [loc EXCEPT ![w].exc = e]

\* upload_rfp: create_workflow, then schedule process_rfp_background
UploadRfp(w, t, client) ==
    /\ pc[w] = "idle"
    /\ db' = [db EXCEPT ![w] = NewWorkflow(client)]
    /\ pc' = [pc EXCEPT ![w] = "step1"]
    /\ rfp' = [rfp EXCEPT ![w] = t]
    /\ UNCHANGED <<extractorVars, poll, loc, hist, qa, serviceVars>>

\* upload_rfp for a file of text t, at a second of the clock that gives
\* workflow_id w: create_workflow, then add_task(process_rfp_background); the
\* exception of create_workflow leaves the handler as a 500 response before
\* the task is added
UploadRequest(w, t, client) ==
    /\ \E outcome \in StoreOutcomes :
        LET r == CreateWorkflow(db, w, client, outcome)
        IN  /\ db' = r.db
            /\ IF r.raised
               THEN /\ up' = [up EXCEPT !.requested = TRUE, !.workflow_id = w,
                                        !.raised = TRUE]
                    /\ UNCHANGED <<pc, rfp, loc, hist>>
               ELSE /\ up' = [up EXCEPT !.requested = TRUE, !.workflow_id = w,
                                        !.raised = FALSE, !.tasks[w] = @ + 1]
                    /\ pc' = [pc EXCEPT ![w] = "step1"]
                    /\ rfp' = [rfp EXCEPT ![w] = t]
                    /\ loc' = [loc EXCEPT ![w] = NoLocals]
                    /\ hist' = [hist EXCEPT ![w] = NoHistory]
    /\ UNCHANGED <<extractorVars, poll, qa, agentVars, clr, fb, sg, vs, upd>>

\* _step_1_extract_questions: update_workflow_state(analyzing)
Step1Analyzing(w) ==
    /\ pc[w] = "step1"
    /\ \E outcome \in StoreOutcomes :
        /\ db' = UpdateWorkflowState(db, w, "analyzing", outcome)
        /\ IF WriteRaises(db, w, outcome)
           THEN Raise(w, "DBError")
           ELSE pc' = [pc EXCEPT ![w] = "extract"] /\ UNCHANGED loc
    /\ UNCHANGED <<extractorVars, poll, rfp, hist, qa, serviceVars>>

\* _step_1_extract_questions: question_extractor.extract_questions(rfp_text)
Step1Extract(w) ==
    /\ pc[w] = "extract"
    /\ \E readOutcome \in ReadOutcomes, llm \in ExtractLLMOutcomes,
          writeOutcome \in WriteOutcomes :
        LET r == Extract(cache, rfp[w], readOutcome, llm, writeOutcome)
        IN  /\ cache' = r.cache
            /\ loc' = [loc EXCEPT ![w].analysis = r.questions]
            /\ hist' = [hist EXCEPT ![w].cacheFailed =
                            \/ ReadFails(cache, rfp[w], readOutcome)
                            \/ ~r.hit /\ r.questions # <<>> /\ writeOutcome # "ok"]
    /\ pc' = [pc EXCEPT ![w] = "save_analysis"]
    /\ UNCHANGED <<prev, ext, db, rfp, qa, calls, poll, serviceVars>>

\* _step_1_extract_questions: update_workflow_analysis
Step1SaveAnalysis(w) ==
    /\ pc[w] = "save_analysis"
    /\ \E outcome \in StoreOutcomes :
        /\ db' = UpdateWorkflowAnalysis(db, w,
                    [questions |-> loc[w].analysis,
                     total_questions |-> Len(loc[w].analysis)], outcome)
        /\ IF WriteRaises(db, w, outcome)
           THEN Raise(w, "DBError")
           ELSE pc' = [pc EXCEPT ![w] = "step2"] /\ UNCHANGED loc
    /\ UNCHANGED <<extractorVars, poll, rfp, hist, qa, serviceVars>>

\* _step_2_generate_answers without its "No questions found" check
Step2Load_NoEmptyCheck(w) ==
    /\ pc[w] = "step2"
    /\ \E outcome \in StoreOutcomes :
        IF outcome # "ok" THEN Raise(w, "DBReadError")
        ELSE /\ loc' = [loc EXCEPT ![w].questions = StoredQuestions(db[w])]
             /\ pc' = [pc EXCEPT ![w] = "routing"]
    /\ UNCHANGED <<extractorVars, poll, db, rfp, hist, qa, serviceVars>>

\* _step_2_generate_answers: get_workflow and the empty-list check
Step2Load(w) ==
    /\ pc[w] = "step2"
    /\ \E outcome \in StoreOutcomes :
        IF outcome # "ok" THEN Raise(w, "DBReadError")
        ELSE IF StoredQuestions(db[w]) = <<>> THEN Raise(w, "ValueError: no questions")
        ELSE /\ loc' = [loc EXCEPT ![w].questions = StoredQuestions(db[w])]
             /\ pc' = [pc EXCEPT ![w] = "routing"]
    /\ UNCHANGED <<extractorVars, poll, db, rfp, hist, qa, serviceVars>>

\* _step_2_generate_answers: update_workflow_state(routing)
Step2Routing(w) ==
    /\ pc[w] = "routing"
    /\ \E outcome \in StoreOutcomes :
        /\ db' = UpdateWorkflowState(db, w, "routing", outcome)
        /\ IF WriteRaises(db, w, outcome)
           THEN Raise(w, "DBError")
           ELSE pc' = [pc EXCEPT ![w] = "generating"] /\ UNCHANGED loc
    /\ UNCHANGED <<extractorVars, poll, rfp, hist, qa, serviceVars>>

\* _step_2_generate_answers: update_workflow_state(generating)
Step2Generating(w) ==
    /\ pc[w] = "generating"
    /\ \E outcome \in StoreOutcomes :
        /\ db' = UpdateWorkflowState(db, w, "generating", outcome)
        /\ IF WriteRaises(db, w, outcome)
           THEN Raise(w, "DBError")
           ELSE /\ pc' = [pc EXCEPT ![w] = "loop"]
                /\ loc' = [loc EXCEPT ![w].generated = <<>>, ![w].i = 1]
    /\ UNCHANGED <<extractorVars, poll, rfp, hist, qa, serviceVars>>

\* _step_2_generate_answers, one pass through the body of the for loop:
\* the local list afterwards, the list a successful write stored, whether
\* the except branch ran and whether an exception left the loop
Iteration(generated, question, a, write1, write2) ==
    LET tried == IF a.raised THEN generated
                 ELSE Append(generated, FormatResponse(a))
        tryFailed == a.raised \/ write1 # "ok"
        caught == Append(tried, ErrorResponse(question))
    IN  IF ~tryFailed
        THEN [generated |-> tried, saved |-> Some(tried),
              handled |-> FALSE, escaped |-> FALSE]
        ELSE IF write2 = "ok"
        THEN [generated |-> caught, saved |-> Some(caught),
              handled |-> TRUE, escaped |-> FALSE]
        ELSE [generated |-> caught, saved |-> None,
              handled |-> TRUE, escaped |-> TRUE]

EffectiveOutcome(d, w, outcome) == IF WriteRaises(d, w, outcome) THEN "error" ELSE "ok"

\* _step_2_generate_answers: the for loop, question loc[w].i
GenerateAnswers(w) ==
    /\ pc[w] = "loop"
    /\ loc[w].i <= Len(loc[w].questions)
    /\ \E search \in SearchOutcomes, llm \in GenerateOutcomes,
          write1 \in StoreOutcomes, write2 \in StoreOutcomes :
        LET question == loc[w].questions[loc[w].i]
            a == Ask(question, search, llm)
            r == Iteration(loc[w].generated, question, a,
                           EffectiveOutcome(db, w, write1),
                           EffectiveOutcome(db, w, write2))
        IN  /\ db' = IF r.saved # None
                     THEN UpdateWorkflowResponses(db, w, r.saved[1], "ok")
                     ELSE db
            /\ qa' = [workflow |-> w, index |-> loc[w].i, search |-> search,
                      llm |-> llm, result |-> a]
            /\ hist' = [hist EXCEPT ![w].handled =
                            IF r.handled THEN @ \cup {loc[w].i} ELSE @]
            /\ IF r.escaped
               THEN /\ pc' = [pc EXCEPT ![w] = "handler"]
                    /\ loc' = [loc EXCEPT ![w].generated = r.generated,
                                          ![w].exc = "DBError"]
               ELSE /\ pc' = [pc EXCEPT ![w] =
                                IF loc[w].i + 1 > Len(loc[w].questions)
                                THEN "step3" ELSE "loop"]
                    /\ loc' = [loc EXCEPT ![w].generated = r.generated,
                                          ![w].i = @ + 1]
    /\ UNCHANGED <<extractorVars, poll, rfp, serviceVars>>

\* _step_3_quality_review: update_workflow_state(reviewing)
Step3Reviewing(w) ==
    /\ pc[w] = "step3"
    /\ \E outcome \in StoreOutcomes :
        /\ db' = UpdateWorkflowState(db, w, "reviewing", outcome)
        /\ IF WriteRaises(db, w, outcome)
           THEN Raise(w, "DBError")
           ELSE pc' = [pc EXCEPT ![w] = "review"] /\ UNCHANGED loc
    /\ UNCHANGED <<extractorVars, poll, rfp, hist, qa, serviceVars>>

\* _step_3_quality_review: get_workflow, the review, update_workflow_review
Step3Review(w) ==
    /\ pc[w] = "review"
    /\ \E readOutcome \in StoreOutcomes, outcome \in StoreOutcomes :
        IF readOutcome # "ok"
        THEN Raise(w, "DBReadError") /\ UNCHANGED db
        ELSE IF StoredResponses(db[w]) = <<>>
        THEN Raise(w, "ValueError: no responses") /\ UNCHANGED db
        ELSE /\ db' = UpdateWorkflowReview(db, w,
                        QualityReview(StoredResponses(db[w])), outcome)
             /\ IF WriteRaises(db, w, outcome)
                THEN Raise(w, "DBError")
                ELSE pc' = [pc EXCEPT ![w] = "step4"] /\ UNCHANGED loc
    /\ UNCHANGED <<extractorVars, poll, rfp, hist, qa, serviceVars>>

\* _step_4_format_document: update_workflow_state(formatting)
Step4Formatting(w) ==
    /\ pc[w] = "step4"
    /\ \E outcome \in StoreOutcomes :
        /\ db' = UpdateWorkflowState(db, w, "formatting", outcome)
        /\ IF WriteRaises(db, w, outcome)
           THEN Raise(w, "DBError")
           ELSE pc' = [pc EXCEPT ![w] = "format"] /\ UNCHANGED loc
    /\ UNCHANGED <<extractorVars, poll, rfp, hist, qa, serviceVars>>

\* _step_4_format_document, the try/except around the formatter: the store
\* afterwards and the exception that leaves the step ("" if none)
FormatDocument(d, w, formatter, write1, write2) ==
    LET path == Some(OutputPath(d[w].client_name))
    IN  IF formatter = "ok" /\ ~WriteRaises(d, w, write1)
        THEN [db |-> UpdateWorkflowFinal(d, w, path, "ready", write1), exc |-> ""]
        ELSE [db |-> UpdateWorkflowFinal(d, w, None, "ready", write2),
              exc |-> IF WriteRaises(d, w, write2) THEN "DBError"
                      ELSE IF formatter = "ok" THEN "DBError"
                      ELSE "FormatError"]

\* _step_4_format_document: get_workflow, formatter, update_workflow_final
Step4Format(w) ==
    /\ pc[w] = "format"
    /\ \E readOutcome \in StoreOutcomes, formatter \in FormatterOutcomes,
          write1 \in StoreOutcomes, write2 \in StoreOutcomes :
        IF readOutcome # "ok"
        THEN Raise(w, "DBReadError") /\ UNCHANGED <<db, hist>>
        ELSE LET r == FormatDocument(db, w, formatter, write1, write2)
             IN  /\ db' = r.db
                 /\ hist' = [hist EXCEPT ![w].formatter = formatter]
                 /\ IF r.exc # ""
                    THEN Raise(w, r.exc)
                    ELSE pc' = [pc EXCEPT ![w] = "return"] /\ UNCHANGED loc
    /\ UNCHANGED <<extractorVars, poll, rfp, qa, serviceVars>>

\* process_rfp_async: return get_workflow(workflow_id)
ReturnWorkflow(w) ==
    /\ pc[w] = "return"
    /\ \E readOutcome \in StoreOutcomes :
        IF readOutcome # "ok" THEN Raise(w, "DBReadError")
        ELSE pc' = [pc EXCEPT ![w] = "returned"] /\ UNCHANGED loc
    /\ UNCHANGED <<extractorVars, poll, db, rfp, hist, qa, serviceVars>>

\* an except clause that re-raises without recording the error state
HandleError_NoWrite(d, w, outcome) == d

\* process_rfp_async, the except clause: the store after the guarded
\* update_workflow_state(workflow_id, "error")
HandleError(d, w, outcome) == UpdateWorkflowState(d, w, "error", outcome)

\* process_rfp_async: except Exception ... raise
ErrorHandler(w) ==
    /\ pc[w] = "handler"
    /\ \E outcome \in StoreOutcomes :
        /\ db' = HandleError(db, w, outcome)
        /\ hist' = [hist EXCEPT ![w].errorWrite = EffectiveOutcome(db, w, outcome)]
    /\ loc' = [loc EXCEPT ![w].raised = loc[w].exc]
    /\ pc' = [pc EXCEPT ![w] = "raised"]
    /\ UNCHANGED <<extractorVars, poll, rfp, qa, serviceVars>>

\* process_rfp_background: the exception of the run is caught and the error
\* state is written once more
BackgroundError(w) ==
    /\ pc[w] = "raised"
    /\ \E outcome \in StoreOutcomes :
        /\ db' = UpdateWorkflowState(db, w, "error", outcome)
        /\ hist' = [hist EXCEPT ![w].backgroundWrite = EffectiveOutcome(db, w, outcome)]
    /\ pc' = [pc EXCEPT ![w] = "bg_done"]
    /\ UNCHANGED <<extractorVars, poll, rfp, loc, qa, serviceVars>>

\* process_rfp_background: the run returned normally
BackgroundDone(w) ==
    /\ pc[w] = "returned"
    /\ pc' = [pc EXCEPT ![w] = "bg_done"]
    /\ UNCHANGED <<extractorVars, poll, db, rfp, loc, hist, qa, serviceVars>>

\* process_rfp_background for workflow w, once it has been scheduled
Run(w) ==
    \/ Step1Analyzing(w)
    \/ Step1Extract(w)
    \/ Step1SaveAnalysis(w)
    \/ Step2Load(w)
    \/ Step2Routing(w)
    \/ Step2Generating(w)
    \/ GenerateAnswers(w)
    \/ Step3Reviewing(w)
    \/ Step3Review(w)
    \/ Step4Formatting(w)
    \/ Step4Format(w)
    \/ ReturnWorkflow(w)
    \/ ErrorHandler(w)
    \/ BackgroundError(w)
    \/ BackgroundDone(w)

\* GET /api/v1/workflows/{workflow_id}, sent twice in a row by a polling
\* client with no update_* call of the run in between
GetWorkflowStatus(w) ==
    /\ db[w].exists
    /\ LET first == GetWorkflow(db, w)
           second == GetWorkflow(first.db, w)
       IN  /\ db' = second.db
           /\ poll' = [polled |-> TRUE,
                       identical |-> first.snapshot = second.snapshot,
                       midGeneration |->
                            /\ db[w].state = "generating"
                            /\ Len(StoredResponses(db[w])) > 0
                            /\ Len(StoredResponses(db[w])) < Len(StoredQuestions(db[w]))]
    /\ UNCHANGED <<extractorVars, pc, rfp, loc, hist, qa, serviceVars>>

Pipeline(w) ==
    \/ \E t \in Texts, client \in Clients : UploadRfp(w, t, client)
    \/ Run(w)

Next == \E w \in WorkflowIds : Pipeline(w)

Spec == Init /\ [][Next]_vars

NextExtract ==
    \/ \E t \in Texts : ExtractCall(t)
    \/ CacheClear

SpecExtract == Init /\ [][NextExtract]_vars

NextCache ==
    \/ NextExtract
    \/ CacheStatsCall

SpecCache == Init /\ [][NextCache]_vars

\* extract() calls of concurrently running workflows, interleaved at the
\* cache operations; no clear() in between
NextConcurrent ==
    \E th \in Threads :
        \/ \E t \in Texts : ExtractCheckCache(th, t)
        \/ ExtractGenerate(th)
        \/ ExtractCacheSet(th)

SpecConcurrent == Init /\ [][NextConcurrent]_vars

\* The analysis step of the pipeline on a cache that earlier extract() calls
\* and clear() have left in any state
NextAnalysis ==
    \/ (\A w \in WorkflowIds : pc[w] = "idle") /\ NextExtract
    \/ \E w \in WorkflowIds :
        \/ \E t \in Texts, client \in Clients : UploadRfp(w, t, client)
        \/ Step1Analyzing(w)
        \/ Step1Extract(w)
        \/ Step1SaveAnalysis(w)
        \/ Step2Load(w)
        \/ ErrorHandler(w)
        \/ BackgroundError(w)

SpecAnalysis == Init /\ [][NextAnalysis]_vars

\* Uploads at any time, also at a second of the clock whose workflow_id is
\* taken, next to the runs they have scheduled
NextUpload ==
    \E w \in WorkflowIds :
        \/ \E client \in Clients : UploadRequest(w, DocSLA, client)
        \/ Run(w)

SpecUpload == Init /\ [][NextUpload]_vars

\* The pipeline with a client that polls the status endpoint at any time
NextPoll ==
    \/ Next
    \/ \E w \in WorkflowIds : GetWorkflowStatus(w)

SpecPoll == Init /\ [][NextPoll]_vars

\* most questions of an analysis
MaxQuestions == 4

\* the index is filled before process_rfp is called
NextOrchestrator ==
    \/ /\ orch.at = "idle"
       /\ \E doc \in KnowledgeDocs : AddDocuments(doc)
    \/ /\ orch.at = "idle"
       /\ ClearIndex
    \/ \E questions \in 0..MaxQuestions, reported \in 0..1 :
           ProcessRfp(questions, IF questions = 0 THEN 0 ELSE questions + reported)
    \/ GenerateNext
    \/ ReviewGenerated
    \/ FormatProposal

SpecOrchestrator == Init /\ [][NextOrchestrator]_vars

NextRetrieve ==
    \/ \E doc \in KnowledgeDocs : AddDocuments(doc)
    \/ ClearIndex
    \/ \E top_k \in RetrieveTopKs : Retrieve(ClientIndustry, top_k)

SpecRetrieve == Init /\ [][NextRetrieve]_vars

\* ---- the review step on any stored answers --------------------------------

\* most answers of a reviewed workflow
MaxAnswers == 3

DigitChars == <<"1", "2", "3", "4", "5", "6", "7", "8", "9">>

\* the i-th question of a stored analysis
SampleQuestion(i) == <<"I", "t", "e", "m", " ", DigitChars[i], "?">>

\* what the generation loop can have stored for one question: the answer of
\* ask, or the placeholder
StoredAnswers(question) ==
    {FormatResponse(Ask(question, SearchReturn(rs), llm)) :
        rs \in SearchResults, llm \in GenerateOutcomes}
    \cup {ErrorResponse(question)}

\* the lists the generation loop can have stored for the first n questions,
\* one answer per question in the order of the questions
RECURSIVE AnswerLists(_)
AnswerLists(n) ==
    IF n = 0 THEN {<<>>}
    ELSE {Append(answers, a) :
            answers \in AnswerLists(n - 1),
            a \in StoredAnswers(SampleQuestion(n))}

\* a workflow as _step_3_quality_review finds it after update_workflow_state
InitReview ==
    /\ InitServices
    /\ cache = [k \in CacheKeys |-> AbsentEntry]
    /\ prev = [t \in Texts |-> NoPrev]
    /\ ext = [text |-> <<>>, questions |-> <<>>, llmCalls |-> 0,
              llm |-> None, readOutcome |-> "ok", prev |-> NoPrev,
              readFailed |-> FALSE, writeFailed |-> FALSE]
    /\ calls = [th \in Threads |-> NoCall]
    /\ poll = NoPoll
    /\ rfp = [w \in WorkflowIds |-> DocSLA]
    /\ hist = [w \in WorkflowIds |-> NoHistory]
    /\ qa = [workflow |-> "", index |-> 0, search |-> SearchRaise, llm |-> "ok",
             result |-> Ask(<<>>, SearchRaise, "ok")]
    /\ pc = [w \in WorkflowIds |-> "review"]
    /\ \E n \in 1..MaxAnswers :
        LET questions == [i \in 1..n |-> SampleQuestion(i)]
        IN  \E answers \in AnswerLists(n) :
                /\ \E client \in Clients :
                    db = [w \in WorkflowIds |->
                            [NewWorkflow(client) EXCEPT
                                !.state = "reviewing",
                                !.rfp_analysis = Some([questions |-> questions,
                                                       total_questions |-> n]),
                                !.generated_responses = Some(answers)]]
                /\ loc = [w \in WorkflowIds |->
                            [NoLocals EXCEPT !.analysis = questions,
                                             !.questions = questions,
                                             !.i = n + 1,
                                             !.generated = answers]]

NextReview ==
    \E w \in WorkflowIds :
        \/ Step3Review(w)
        \/ ErrorHandler(w)
        \/ BackgroundError(w)

SpecReview == InitReview /\ [][NextReview]_vars

\* ---- two workflows running at the same time --------------------------------

\* two uploads whose create_workflow succeeded: workflow_id is unique
ConcurrentIds == {"WF-RFP-1", "WF-RFP-2"}

\* the answer list of a workflow whose only question found nothing
NoInfoResponses(question) ==
    <<FormatResponse(Ask(question, SearchReturn(<<>>), "ok"))>>

\* One workflow is about to store the analysis of its one question, the
\* other one has stored its answers and is about to be reviewed
InitPair ==
    /\ InitServices
    /\ cache = [k \in CacheKeys |-> AbsentEntry]
    /\ prev = [t \in Texts |-> NoPrev]
    /\ ext = [text |-> <<>>, questions |-> <<>>, llmCalls |-> 0,
              llm |-> None, readOutcome |-> "ok", prev |-> NoPrev,
              readFailed |-> FALSE, writeFailed |-> FALSE]
    /\ calls = [th \in Threads |-> NoCall]
    /\ poll = NoPoll
    /\ qa = [workflow |-> "", index |-> 0, search |-> SearchRaise, llm |-> "ok",
             result |-> Ask(<<>>, SearchRaise, "ok")]
    /\ rfp = [w \in ConcurrentIds |-> DocSLA]
    /\ hist = [w \in ConcurrentIds |-> NoHistory]
    /\ \E later \in ConcurrentIds, client \in Clients :
        LET questions == FallbackOf[DocSLA]
            answers == NoInfoResponses(questions[1])
        IN  /\ pc = [w \in ConcurrentIds |->
                        IF w = later THEN "save_analysis" ELSE "review"]
            /\ db = [w \in ConcurrentIds |->
                        IF w = later
                        THEN [NewWorkflow(client) EXCEPT !.state = "analyzing",
                                                         !.updated_at = 2]
                        ELSE [NewWorkflow(client) EXCEPT
                                !.state = "reviewing",
                                !.rfp_analysis =
                                    Some([questions |-> questions,
                                          total_questions |-> Len(questions)]),
                                !.generated_responses = Some(answers),
                                !.updated_at = 7]]
            /\ loc = [w \in ConcurrentIds |->
                        IF w = later
                        THEN [NoLocals EXCEPT !.analysis = questions]
                        ELSE [NoLocals EXCEPT !.analysis = questions,
                                              !.questions = questions,
                                              !.i = Len(questions) + 1,
                                              !.generated = answers]]

\* the rest of process_rfp_background for workflow w
RunFromAnalysis(w) ==
    \/ Step1SaveAnalysis(w)
    \/ Step2Load(w)
    \/ Step2Routing(w)
    \/ Step2Generating(w)
    \/ GenerateAnswers(w)
    \/ Step3Reviewing(w)
    \/ Step3Review(w)
    \/ Step4Formatting(w)
    \/ Step4Format(w)
    \/ ReturnWorkflow(w)
    \/ ErrorHandler(w)
    \/ BackgroundError(w)
    \/ BackgroundDone(w)

NextPair == \E w \in ConcurrentIds : RunFromAnalysis(w)

SpecPair == InitPair /\ [][NextPair]_vars

\* ---- direct calls of the store functions ------------------------------------

\* most writes of one record
MaxWrites == 3

\* the values the calls are made with
UpdateStates == {"analyzing", "error"}

SampleAnalysis ==
    [questions |-> FallbackOf[DocSLA], total_questions |-> Len(FallbackOf[DocSLA])]

SampleResponses == NoInfoResponses(FallbackOf[DocSLA][1])

\* an empty table
InitUpdates ==
    /\ InitServices
    /\ cache = [k \in CacheKeys |-> AbsentEntry]
    /\ prev = [t \in Texts |-> NoPrev]
    /\ ext = [text |-> <<>>, questions |-> <<>>, llmCalls |-> 0,
              llm |-> None, readOutcome |-> "ok", prev |-> NoPrev,
              readFailed |-> FALSE, writeFailed |-> FALSE]
    /\ calls = [th \in Threads |-> NoCall]
    /\ poll = NoPoll
    /\ qa = [workflow |-> "", index |-> 0, search |-> SearchRaise, llm |-> "ok",
             result |-> Ask(<<>>, SearchRaise, "ok")]
    /\ db = [w \in ConcurrentIds |-> NoRecord]
    /\ pc = [w \in ConcurrentIds |-> "idle"]
    /\ rfp = [w \in ConcurrentIds |-> <<>>]
    /\ loc = [w \in ConcurrentIds |-> NoLocals]
    /\ hist = [w \in ConcurrentIds |-> NoHistory]

\* the record of w can take one more write
CanWrite(w) == db[w].exists => db[w].updated_at < MaxWrites

\* create_workflow(w, client)
CreateWorkflowCall(w, client) ==
    /\ \E outcome \in StoreOutcomes :
        db' = CreateWorkflow(db, w, client, outcome).db
    /\ UNCHANGED <<extractorVars, pc, rfp, loc, hist, qa, poll, serviceVars>>

\* what a direct call leaves behind
UpdateCalled(operation, w, outcome) ==
    /\ upd' = [called |-> TRUE, operation |-> operation, workflow_id |-> w,
               raised |-> WriteRaises(db, w, outcome)]
    /\ UNCHANGED <<extractorVars, pc, rfp, loc, hist, qa, poll, agentVars, clr,
                   fb, sg, vs, up>>

\* update_workflow_state(w, state)
UpdateStateCall(w, state) ==
    /\ CanWrite(w)
    /\ \E outcome \in StoreOutcomes :
        /\ db' = UpdateWorkflowState(db, w, state, outcome)
        /\ UpdateCalled("update_workflow_state", w, outcome)

\* update_workflow_analysis(w, rfp_analysis)
UpdateAnalysisCall(w) ==
    /\ CanWrite(w)
    /\ \E outcome \in StoreOutcomes :
        /\ db' = UpdateWorkflowAnalysis(db, w, SampleAnalysis, outcome)
        /\ UpdateCalled("update_workflow_analysis", w, outcome)

\* update_workflow_responses(w, responses)
UpdateResponsesCall(w) ==
    /\ CanWrite(w)
    /\ \E outcome \in StoreOutcomes :
        /\ db' = UpdateWorkflowResponses(db, w, SampleResponses, outcome)
        /\ UpdateCalled("update_workflow_responses", w, outcome)

\* update_workflow_review(w, review_result)
UpdateReviewCall(w) ==
    /\ CanWrite(w)
    /\ \E outcome \in StoreOutcomes :
        /\ db' = UpdateWorkflowReview(db, w, QualityReview(SampleResponses), outcome)
        /\ UpdateCalled("update_workflow_review", w, outcome)

\* update_workflow_final(w, output_file_path, state="ready")
UpdateFinalCall(w, output_file_path) ==
    /\ CanWrite(w)
    /\ \E outcome \in StoreOutcomes :
        /\ db' = UpdateWorkflowFinal(db, w, output_file_path, "ready", outcome)
        /\ UpdateCalled("update_workflow_final", w, outcome)

NextUpdates ==
    \E w \in ConcurrentIds :
        \/ \E client \in Clients : CreateWorkflowCall(w, client)
        \/ \E state \in UpdateStates : UpdateStateCall(w, state)
        \/ UpdateAnalysisCall(w)
        \/ UpdateResponsesCall(w)
        \/ UpdateReviewCall(w)
        \/ \E client \in Clients :
            \E path \in {None, Some(OutputPath(client))} : UpdateFinalCall(w, path)

SpecUpdates == InitUpdates /\ [][NextUpdates]_vars

\* The background task of a started workflow keeps running: every external
\* call returns or raises, after which the next step of the run is taken
SpecLive == Init /\ [][Next]_vars /\ \A w \in WorkflowIds : WF_vars(Run(w))

\* ------------------------------------------------------------------------
\* Properties

Persisted(w) == StoredResponses(db[w])

StateRank(s) ==
    CASE s = "created" -> 0
      [] s = "analyzing" -> 1
      [] s = "routing" -> 2
      [] s = "generating" -> 3
      [] s = "reviewing" -> 4
      [] s = "human_review" -> 5
      [] s = "formatting" -> 5
      [] s = "ready" -> 6
      [] s = "error" -> 6
      [] OTHER -> 0 - 1

\* C1: the persisted state of a workflow only moves forward through
\* created, analyzing, routing, generating, reviewing,
\* (human_review | formatting), ready | error, and nothing is persisted
\* after ready or after error.
C1_StateOrder ==
    [][\A w \in WorkflowIds :
        (db[w].exists /\ db'[w].state # db[w].state) =>
            /\ db[w].state \notin {"ready", "error"}
            /\ StateRank(db'[w].state) > StateRank(db[w].state)]_vars

\* C2: in every persisted snapshot the number of generated_responses is at
\* most the number of questions, and the two are equal in state ready.
C2_AnswersWithinQuestions ==
    \A w \in WorkflowIds :
        /\ Len(Persisted(w)) <= Len(StoredQuestions(db[w]))
        /\ db[w].state = "ready" => Len(Persisted(w)) = Len(StoredQuestions(db[w]))

\* C3: the persisted answers never get shorter, each processed question of
\* the generation loop makes them longer by exactly one, and the answer to
\* question i is persisted before question i+1 is taken up.
C3_OneAnswerPerQuestion ==
    [][\A w \in WorkflowIds :
        /\ Len(StoredResponses(db'[w])) >= Len(Persisted(w))
        /\ (pc[w] = "loop" /\ loc'[w].i = loc[w].i + 1) =>
                Len(StoredResponses(db'[w])) = Len(Persisted(w)) + 1
        /\ pc'[w] = "loop" => Len(StoredResponses(db'[w])) >= loc'[w].i - 1]_vars

\* C4: when an exception is caught while question i is answered, the
\* persisted answer at position i is the zero-confidence placeholder without
\* sources, and the run goes on with the next question instead of failing.
C4_PlaceholderForFailedQuestion ==
    \A w \in WorkflowIds : \A i \in hist[w].handled :
        /\ Len(Persisted(w)) >= i
        /\ Persisted(w)[i] = ErrorResponse(loc[w].questions[i])
        /\ pc[w] \notin {"handler", "raised"} \/ loc[w].i > i

\* C5: when the formatter raises, the run ends with the persisted state
\* ready, no output_file_path, and the formatter's exception re-raised.
C5_FormatFailureEndsReady ==
    \A w \in WorkflowIds :
        (pc[w] = "raised" /\ hist[w].formatter = "raise") =>
            /\ db[w].state = "ready"
            /\ db[w].output_file_path = None
            /\ loc[w].raised # ""

LowShareExceeded(review) == 10 * review.low_confidence_count > 3 * review.total

\* C6: when more than 30% of the reviewed answers are in the low bucket the
\* formatter is never invoked and the run ends in human_review, not ready.
C6_LowConfidenceGoesToHumanReview ==
    \A w \in WorkflowIds :
        (db[w].review_result # None /\ LowShareExceeded(db[w].review_result[1])) =>
            /\ hist[w].formatter = "none"
            /\ db[w].state \notin {"formatting", "ready"}
            /\ pc[w] = "returned" => db[w].state = "human_review"

\* C7 as written: once a run has ended with an exception, the persisted
\* state is error and that exception was re-raised.
C7_AlwaysErrorState ==
    \A w \in WorkflowIds :
        pc[w] = "raised" =>
            /\ db[w].state = "error"
            /\ loc[w].raised = loc[w].exc

\* C7: once a run has ended with an exception, that exception was re-raised,
\* and the persisted state is error unless the write of the error state
\* itself failed.
C7_ErrorStateUnlessWriteFails ==
    \A w \in WorkflowIds :
        pc[w] = "raised" =>
            /\ loc[w].raised = loc[w].exc
            /\ loc[w].raised # ""
            /\ hist[w].errorWrite = "ok" => db[w].state = "error"

C7_Witness ==
    \E w \in WorkflowIds :
        /\ pc[w] = "raised"
        /\ loc[w].raised = "ValueError: no questions"
        /\ hist[w].errorWrite = "ok"
        /\ db[w].state = "error"

C9_AnswersFollowQuestions ==
    \A w \in WorkflowIds : \A i \in 1..Len(Persisted(w)) :
        /\ i <= Len(StoredQuestions(db[w]))
        /\ Persisted(w)[i].question = StoredQuestions(db[w])[i]

\* what one stored answer must be, given only its own sources
OwnAnswer(r) ==
    IF r.sources = <<>>
    THEN r.confidence = 0 /\ r.answer \in {NoInfoAnswer, PlaceholderAnswer}
    ELSE \/ r.answer = GeneratedAnswerText /\ r.confidence = CalculateConfidence(r.sources)
         \/ r.answer = ErrorMarkerAnswer /\ r.confidence = 0

\* C10: a search that returns zero chunks makes ask return the fixed
\* insufficient-information message with confidence 0, no sources and no
\* llm.generate call; every persisted answer is determined by its own
\* retrieval, whatever the other questions retrieved.
C10_EmptyRetrieval ==
    /\ (qa.search.ok /\ qa.search.results = <<>>) =>
            /\ ~qa.result.raised
            /\ qa.result.answer = NoInfoAnswer
            /\ qa.result.confidence = 0
            /\ qa.result.sources = <<>>
            /\ qa.result.llmCalls = 0
    /\ \A w \in WorkflowIds : \A i \in 1..Len(Persisted(w)) : OwnAnswer(Persisted(w)[i])

C10_Witness ==
    \E w \in WorkflowIds :
        /\ qa.workflow = w
        /\ qa.index = 2
        /\ qa.search.ok /\ qa.search.results = <<>>
        /\ qa.result.llmCalls = 0
        /\ Len(Persisted(w)) = 2
        /\ Persisted(w)[1].answer = GeneratedAnswerText
        /\ Persisted(w)[1].confidence > 0
        /\ Persisted(w)[2].answer = NoInfoAnswer

\* the retrieval-quality formula, cleared of its divisions: for n chunks with
\* scores in hundredths, c (in 1/ConfidenceOne) is
\* min(1, 0.4 * average + 0.4 * maximum + 0.2 * min(n / 5, 1))
IsRetrievalConfidence(c, sources) ==
    LET n == Len(sources)
        scores == {sources[i].score : i \in 1..n}
        top == CHOOSE m \in scores : \A x \in scores : x <= m
        weighted == 600 * SumScores(sources) + 600 * n * top
                        + 6000 * n * (IF n < 5 THEN n ELSE 5)
    IN  5 * n * c = (IF weighted > 5 * n * ConfidenceOne
                     THEN 5 * n * ConfidenceOne ELSE weighted)

ScoresInUnitInterval(sources) ==
    \A i \in 1..Len(sources) : 0 <= sources[i].score /\ sources[i].score <= 100

\* C11 as written: every persisted confidence lies in [0, 1], and for every
\* answer with a non-empty retrieval it equals the retrieval-quality formula.
C11_FormulaForEveryRetrieval ==
    \A w \in WorkflowIds : \A i \in 1..Len(Persisted(w)) :
        LET r == Persisted(w)[i]
        IN  ScoresInUnitInterval(r.sources) =>
                /\ 0 <= r.confidence /\ r.confidence <= ConfidenceOne
                /\ r.sources # <<>> => IsRetrievalConfidence(r.confidence, r.sources)

\* C11: every persisted confidence lies in [0, 1]; for an answer with a
\* non-empty retrieval it equals the retrieval-quality formula when
\* llm.generate returned and 0 when llm.generate raised (the error-marker
\* answer); placeholders and empty retrievals have confidence 0.
C11_ConfidenceInRange ==
    /\ \A w \in WorkflowIds : \A i \in 1..Len(Persisted(w)) :
        LET r == Persisted(w)[i]
        IN  ScoresInUnitInterval(r.sources) =>
                /\ 0 <= r.confidence /\ r.confidence <= ConfidenceOne
                /\ (r.sources # <<>> /\ r.answer # ErrorMarkerAnswer) =>
                        IsRetrievalConfidence(r.confidence, r.sources)
                /\ (r.sources = <<>> \/ r.answer = ErrorMarkerAnswer) => r.confidence = 0
    /\ (qa.search.ok /\ qa.search.results # <<>>) =>
            IF qa.llm = "ok"
            THEN IsRetrievalConfidence(qa.result.confidence, qa.search.results)
            ELSE qa.result.confidence = 0

C11_Witness ==
    \E w \in WorkflowIds :
        /\ Len(Persisted(w)) = 2
        /\ Len(Persisted(w)[1].sources) = 2
        /\ Persisted(w)[1].sources[1].score = 98
        /\ Persisted(w)[1].sources[2].score = 30
        /\ Persisted(w)[1].confidence = 21840
        /\ Persisted(w)[2].answer = ErrorMarkerAnswer
        /\ Persisted(w)[2].sources # <<>>
        /\ Persisted(w)[2].confidence = 0

Started(w) == pc[w] # "idle"

\* C12 as written: every started workflow eventually has the persisted
\* state ready or error.
C12_EventuallyReadyOrError ==
    \A w \in WorkflowIds :
        Started(w) ~> (db[w].state \in {"ready", "error"})

\* C12: every started workflow's background task eventually finishes for
\* good, and from then on the persisted state is ready or error unless both
\* writes of the error state (in process_rfp_async and in
\* process_rfp_background) raised.
C12_RunFinishes ==
    \A w \in WorkflowIds :
        <>[](Started(w) =>
                /\ pc[w] = "bg_done"
                /\ \/ db[w].state \in {"ready", "error"}
                   \/ /\ hist[w].errorWrite = "error"
                      /\ hist[w].backgroundWrite = "error")

C12_Witness ==
    \E w \in WorkflowIds :
        /\ pc[w] = "bg_done"
        /\ db[w].state = "ready"
        /\ hist[w].formatter = "ok"
        /\ hist[w].errorWrite = "none"

\* C13: in every persisted snapshot, a state of routing, generating,
\* reviewing, formatting or ready comes with a stored rfp_analysis of at
\* least one question, and a state of formatting or ready with a stored
\* review_result; the state leaves analyzing only with the questions stored
\* and becomes generating only from routing.
C13_SnapshotsCarryEarlierResults ==
    /\ [](\A w \in WorkflowIds :
            /\ db[w].state \in {"routing", "generating", "reviewing", "formatting", "ready"}
                  => /\ db[w].rfp_analysis # None
                     /\ Len(StoredQuestions(db[w])) >= 1
                     /\ db[w].rfp_analysis[1].total_questions = Len(StoredQuestions(db[w]))
            /\ db[w].state \in {"formatting", "ready"} => db[w].review_result # None)
    /\ [][\A w \in WorkflowIds :
            /\ (db[w].state = "analyzing" /\ db'[w].state \notin {"analyzing", "error"})
                  => (db[w].rfp_analysis # None /\ db'[w].state = "routing")
            /\ (db'[w].state = "generating" /\ db[w].state # "generating")
                  => db[w].state = "routing"]_vars

C13_Witness ==
    \E w \in WorkflowIds :
        /\ db[w].state = "ready"
        /\ Len(StoredQuestions(db[w])) = 2
        /\ db[w].review_result # None
        /\ db[w].review_result[1].total = 2

\* C14: every persisted snapshot whose state is ready has its
\* output_file_path set.
C14_ReadyHasOutputFile ==
    \A w \in WorkflowIds :
        db[w].state = "ready" => db[w].output_file_path # None

\* the lists extract can produce on a miss for text t
MissResults(t) == {ParsedOf[r] : r \in {x \in LLMResponses : ParsedOf[x] # <<>>}}
                      \cup {FallbackOf[t]}

C16_EntriesImmutable ==
    /\ [][\A k \in CacheKeys :
            (/\ cache[k].present
             /\ \A th \in Threads : ~calls'[th].ioFailed) => cache'[k] = cache[k]]_vars
    /\ [](\A a, b \in Threads :
            (/\ calls[a].at = "returned" /\ calls[b].at = "returned"
             /\ ~calls[a].ioFailed /\ ~calls[b].ioFailed
             /\ calls[a].text = calls[b].text
             /\ calls[a].questions # <<>> /\ calls[b].questions # <<>>)
                => calls[a].questions = calls[b].questions)

\* C17 as written: right after extract(T) has returned list L without a
\* failed cache write, get(T) returns L.
C17_EveryExtractionCached ==
    [][(ext' # ext /\ ~ext'.writeFailed) =>
            CacheGet(cache', ext'.text, "ok") = Some(ext'.questions)]_vars

\* C17: right after extract(T) has returned a non-empty list L, by the
\* primary path, the fallback path or a cache hit, without a failed cache
\* write, get(T) returns L; an empty list is returned without being cached.
C17_NonEmptyExtractionCached ==
    [][(ext' # ext /\ ~ext'.writeFailed) =>
            IF ext'.questions # <<>>
            THEN CacheGet(cache', ext'.text, "ok") = Some(ext'.questions)
            ELSE ext'.llmCalls = 1 /\ cache' = cache]_vars

C17_Witness ==
    /\ ext.text = DocSLA
    /\ ext.llmCalls = 1
    /\ ~ext.writeFailed
    /\ ext.questions = FallbackOf[DocSLA]
    /\ ext.questions # <<>>
    /\ ext.questions \notin {ParsedOf[r] : r \in LLMResponses}
    /\ CacheGet(cache, DocSLA, "ok") = Some(ext.questions)

\* C18: the persisted review of a non-empty answers sequence has bucket
\* counts that partition the answers by the thresholds 0.8 and 0.5, a
\* completeness_score of (high * 1.0 + medium * 0.7 + low * 0.3) / total, and
\* overall_quality high if that score is at least 0.8, medium if at least
\* 0.6, else low.
C18_ReviewFollowsFormula ==
    \A w \in WorkflowIds :
        (db[w].review_result # None /\ Persisted(w) # <<>>) =>
            LET review == db[w].review_result[1]
                answers == Persisted(w)
                high == Cardinality({i \in DOMAIN answers : 5 * answers[i].confidence >= 4 * ConfidenceOne})
                low == Cardinality({i \in DOMAIN answers : 2 * answers[i].confidence < ConfidenceOne})
                medium == Len(answers) - high - low
                tenths == 10 * high + 7 * medium + 3 * low
            IN  /\ review.high_confidence_count = high
                /\ review.medium_confidence_count = medium
                /\ review.low_confidence_count = low
                /\ high + medium + low = review.total
                /\ review.completeness_tenths = tenths
                /\ review.overall_quality =
                        (IF tenths >= 8 * Len(answers) THEN "high"
                         ELSE IF tenths >= 6 * Len(answers) THEN "medium"
                         ELSE "low")

\* C19: issues_found of the persisted review has exactly one entry for every
\* answer with confidence below 0.5 and none for any other answer; each
\* entry carries the (0-based) position and the question of its answer and
\* severity warning, the entries are in increasing order of position, and
\* their number is low_confidence_count.
C19_IssuesListLowAnswers ==
    \A w \in WorkflowIds :
        db[w].review_result # None =>
            LET review == db[w].review_result[1]
                issues == review.issues_found
                answers == Persisted(w)
                lowPositions == {i \in DOMAIN answers : 2 * answers[i].confidence < ConfidenceOne}
            IN  /\ {issues[j].question_index + 1 : j \in DOMAIN issues} = lowPositions
                /\ Len(issues) = Cardinality(lowPositions)
                /\ Len(issues) = review.low_confidence_count
                /\ \A j \in DOMAIN issues : \A k \in DOMAIN issues :
                        j < k => issues[j].question_index < issues[k].question_index
                /\ \A j \in DOMAIN issues :
                        /\ issues[j].severity = "warning"
                        /\ issues[j].question = answers[issues[j].question_index + 1].question

C19_Witness ==
    \E w \in WorkflowIds :
        /\ db[w].review_result # None
        /\ Len(Persisted(w)) = 3
        /\ Persisted(w)[1].confidence = 0
        /\ Persisted(w)[2].confidence >= HighConfidence
        /\ Persisted(w)[3].confidence < MediumConfidence
        /\ Persisted(w)[3].confidence > 0
        /\ Len(db[w].review_result[1].issues_found) = 2
        /\ db[w].review_result[1].issues_found[1].question_index = 0
        /\ db[w].review_result[1].issues_found[2].question_index = 2

\* C20: get_workflow is a pure read: two calls with no update_* call in
\* between return identical snapshots, and a call changes no stored field
\* of any workflow, updated_at included, at every point of the pipeline.
C20_GetWorkflowIsPureRead ==
    /\ [](poll.polled => poll.identical)
    /\ [][poll' # poll => db' = db]_vars

C20_Witness ==
    \E w \in WorkflowIds :
        /\ poll.polled /\ poll.identical /\ poll.midGeneration
        /\ pc[w] = "loop"
        /\ db[w].state = "generating"
        /\ Len(Persisted(w)) = 1
        /\ Len(StoredQuestions(db[w])) = 2

\* what the run of a workflow keeps of it outside the store
RunOf(p, l, h, w) == <<p[w], l[w], h[w]>>

\* C21: a step that is not a step of workflow w (it leaves the position, the
\* locals and the history of w's run alone) leaves the record of w as it
\* was, state, questions, answers and review included; and every step changes
\* the record of at most one workflow.
C21_WorkflowsIndependent ==
    /\ [][\A w \in ConcurrentIds :
            RunOf(pc', loc', hist', w) = RunOf(pc, loc, hist, w) => db'[w] = db[w]]_vars
    /\ [][\A v, w \in ConcurrentIds :
            (db'[v] # db[v] /\ db'[w] # db[w]) => v = w]_vars

C21_Witness ==
    /\ \A w \in ConcurrentIds : db[w].state = "ready" /\ pc[w] = "bg_done"
    /\ \E v, w \in ConcurrentIds :
        /\ StoredResponses(db[v]) # StoredResponses(db[w])
        /\ db[v].review_result # db[w].review_result
        /\ db[v].review_result # None
        /\ db[w].review_result # None

\* C22: a retrieve call on an index without documents does not raise and
\* returns an empty retrieved_content, whatever the encoder would have done;
\* VectorStore.search itself returns the empty list there.
C22_EmptyIndexNeverRaises ==
    /\ [][(ret' # ret /\ kb = <<>>) =>
            /\ ~ret'.raised
            /\ ret'.retrieved_content = <<>>]_vars
    /\ [](\A top_k \in RetrieveTopKs, encoder \in EncoderOutcomes :
            VectorSearch(<<>>, top_k, encoder, <<>>) = [ok |-> TRUE, results |-> <<>>])

C22_Witness ==
    /\ ret.called
    /\ ret.indexed = 0
    /\ ~ret.raised
    /\ ret.retrieved_content = <<>>
    /\ kb # <<>>

NoExtractSinceClear == \A t \in Texts : prev[t] = NoPrev

\* the step is a clear() call
ClearReturns ==
    /\ clr'.cleared
    /\ clr'.stats = None
    /\ prev' = [t \in Texts |-> NoPrev]
    /\ ext' = ext

GenerateRaisedInAsk ==
    /\ qa' # qa
    /\ qa'.search.ok
    /\ qa'.search.results # <<>>
    /\ qa'.llm = "raise"

\* C24: when llm.generate raises inside ask after a non-empty retrieval, ask
\* returns (it does not raise) an answer with the error-marker text, the
\* retrieved sources and confidence 0; the loop appends that answer for the
\* question, and unless the store write of the list fails the per-question
\* handler does not run, the list is persisted with the answer last and the
\* run goes on to the next question or to the review.
C24_GenerateFailureAbsorbed ==
    [][GenerateRaisedInAsk =>
        LET w == qa'.workflow
            own == FormatResponse(qa'.result)
        IN  /\ ~qa'.result.raised
            /\ qa'.result.answer = ErrorMarkerAnswer
            /\ qa'.result.confidence = 0
            /\ qa'.result.sources = qa'.search.results
            /\ qa'.result.llmCalls = 1
            /\ Len(loc'[w].generated) > Len(loc[w].generated)
            /\ loc'[w].generated[Len(loc[w].generated) + 1] = own
            /\ hist'[w].handled = hist[w].handled =>
                /\ StoredResponses(db'[w]) = Append(loc[w].generated, own)
                /\ pc'[w] \in {"loop", "step3"}
                /\ loc'[w].i = loc[w].i + 1]_vars

C24_Witness ==
    \E w \in WorkflowIds :
        /\ pc[w] = "bg_done"
        /\ db[w].state = "ready"
        /\ hist[w].handled = {}
        /\ Len(Persisted(w)) = 2
        /\ Persisted(w)[1].answer = ErrorMarkerAnswer
        /\ Persisted(w)[1].sources # <<>>
        /\ Persisted(w)[1].confidence = 0
        /\ Persisted(w)[2].answer = GeneratedAnswerText

\* every question of the run got the placeholder and nothing else: each ask
\* raised, which only a raising vector_store.search makes it do
EverySearchRaised(w) ==
    /\ loc[w].questions # <<>>
    /\ hist[w].handled = 1..Len(loc[w].questions)
    /\ Persisted(w) = [i \in 1..Len(loc[w].questions) |->
                            ErrorResponse(loc[w].questions[i])]

\* C25: a run in which every vector search raised does not reach ready; it
\* ends with the persisted state error and the exception re-raised to the
\* caller of process_rfp_async.
C25_StoreUnreachableEndsInError ==
    \A w \in WorkflowIds :
        EverySearchRaised(w) =>
            /\ db[w].state # "ready"
            /\ pc[w] \notin {"step3", "review", "step4", "format", "return", "returned"}
            /\ pc[w] = "bg_done" => (db[w].state = "error" /\ loc[w].raised # "")

\* ------------------------------------------------------------------------
\* C26: with the default configuration ReviewerAgent.review_responses and
\* _step_3_quality_review put every answer in the same bucket, so the
\* (high, medium, low) counts of the two agree on the stored answers
StoredConfidences(w) ==
    [i \in 1..Len(StoredResponses(db[w])) |-> StoredResponses(db[w])[i].confidence]

C26_ReviewersBucketAlike ==
    \A w \in WorkflowIds :
        db[w].review_result # None =>
            LET step3 == db[w].review_result[1]
                confidences == StoredConfidences(w)
            IN  /\ ReviewerCount(confidences, "high") = step3.high_confidence_count
                /\ ReviewerCount(confidences, "medium") = step3.medium_confidence_count
                /\ ReviewerCount(confidences, "low") = step3.low_confidence_count

\* ------------------------------------------------------------------------
\* C27: ReviewerAgent reports NEEDS_REVIEW exactly when more than 30% of the
\* responses are in its low bucket, whatever verdict the issues gave, and
\* process_rfp returns in HUMAN_REVIEW, with the formatter never called and
\* no output_file_path, exactly in that case
LowShareAboveThirtyPercent(responses) ==
    10 * Cardinality({i \in 1..Len(responses) :
                        responses[i].confidence < ReviewerMediumThreshold})
        > 3 * Len(responses)

C27_HumanReviewOnLowShare ==
    orch.review_result # None =>
        LET review_result == orch.review_result[1]
            needs == LowShareAboveThirtyPercent(orch.responses)
        IN  /\ (review_result.overall_readiness = "NEEDS_REVIEW") <=> needs
            /\ needs => /\ orch.at = "returned"
                        /\ orch.state = "human_review"
                        /\ orch.formatter = "none"
                        /\ orch.output_file_path = None
            /\ ~needs => orch.state \in {"formatting", "ready"}

\* a run returned in HUMAN_REVIEW on a review that found no issue
C27_Witness ==
    /\ orch.review_result # None
    /\ orch.state = "human_review"
    /\ orch.review_result[1].compliance_status = "PASS"
    /\ Len(orch.responses) = MaxQuestions

\* ------------------------------------------------------------------------
\* C28: retrieve returns the candidates by descending 0.4 * similarity +
\* 0.3 * industry_match + 0.2 * recency + 0.1 * outcome_bonus with
\* industry_match 1.0 for the industry of the querying context and 0.0
\* otherwise; in particular a candidate of that industry is never ranked
\* below a candidate that differs from it only by another industry
SameIndustry(content) ==
    \E k \in 1..Len(content.reason) : content.reason[k] = "Same industry"

DiffersOnlyByIndustry(a, b) ==
    /\ a.text = b.text
    /\ a.relevance_score = b.relevance_score
    /\ a.last_used = b.last_used
    /\ a.win_outcome = b.win_outcome
    /\ SameIndustry(a) # SameIndustry(b)

C28_IndustryMatchRanksAbove ==
    \A i, j \in 1..Len(ret.retrieved_content) :
        (/\ i < j
         /\ DiffersOnlyByIndustry(ret.retrieved_content[i], ret.retrieved_content[j]))
            => SameIndustry(ret.retrieved_content[i])

\* ------------------------------------------------------------------------
\* C29: an extract call that reaches the generative capability returns,
\* whatever that call does: the fallback extraction of the document exactly
\* when the call raised or its output parsed to no question, and the parsed
\* output otherwise
GenerationUnusable(llm) == ~llm.ok \/ ParsedOf[llm.text] = <<>>

C29_FallbackExactlyOnFailure ==
    ext.llm # None =>
        LET llm == ext.llm[1]
        IN  /\ ext.llmCalls = 1
            /\ (ext.questions = FallbackOf[ext.text]) <=> GenerationUnusable(llm)
            /\ ~GenerationUnusable(llm) => ext.questions = ParsedOf[llm.text]

\* the generative call raised and the call returned the fallback questions
C29_Witness ==
    /\ ext.llm # None
    /\ ~ext.llm[1].ok
    /\ ext.questions # <<>>
    /\ ext.questions = FallbackOf[ext.text]

\* ------------------------------------------------------------------------
\* C30: the fallback extraction retains, as a question, every sentence of
\* the input that contains one of the requirement phrases or that ends in a
\* question mark in the input text

\* the sentences of a text, each with the run of ".", "!" and "?" that ends it
RECURSIVE SentencesWithEnd(_)
SentencesWithEnd(s) ==
    IF \E i \in 1..Len(s) : s[i] \in SentenceDelims
    THEN LET i == FirstIn(s, SentenceDelims)
             rest == DropWhile(SubSeq(s, i, Len(s)), SentenceDelims)
         IN  <<[body |-> Strip(SubSeq(s, 1, i - 1)),
                end |-> SubSeq(s, i, Len(s) - Len(rest))]>>
             \o SentencesWithEnd(rest)
    ELSE <<[body |-> Strip(s), end |-> <<>>]>>

SentencesOf == [t \in Texts |-> SentencesWithEnd(t)]

RetainedAsQuestion(body, questions) ==
    \E i \in 1..Len(questions) : questions[i] = Append(body, "?")

C30_FallbackRetainsQuestions ==
    (ext.llm # None /\ GenerationUnusable(ext.llm[1])) =>
        \A k \in 1..Len(SentencesOf[ext.text]) :
            LET sentence == SentencesOf[ext.text][k]
            IN  (/\ sentence.body # <<>>
                 /\ \/ IsRequirement(sentence.body)
                    \/ HasChar(sentence.end, "?"))
                    => RetainedAsQuestion(sentence.body, ext.questions)

\* ------------------------------------------------------------------------
\* C31: the result of the fallback extraction holds no question twice, keeps
\* the retained questions in the order of their first occurrence, and has at
\* most 50 entries
Retained == [t \in FallbackInputs |-> FallbackSentences(SplitSentences(t))]

FirstSeen(retained, question) ==
    CHOOSE i \in 1..Len(retained) :
        /\ retained[i] = question
        /\ \A j \in 1..(i - 1) : retained[j] # question

C31_FallbackDedupOrderCap ==
    fb.called =>
        LET retained == Retained[fb.text]
            result == fb.questions
        IN  /\ Len(result) <= 50
            /\ \A k, l \in 1..Len(result) : k # l => result[k] # result[l]
            /\ \A k \in 1..Len(result) : \E i \in 1..Len(retained) : retained[i] = result[k]
            /\ \A k, l \in 1..Len(result) :
                k < l => FirstSeen(retained, result[k]) < FirstSeen(retained, result[l])
            /\ \A i \in 1..Len(retained) :
                (\A k \in 1..Len(result) : result[k] # retained[i]) =>
                    /\ Len(result) = 50
                    /\ FirstSeen(retained, retained[i]) > FirstSeen(retained, result[50])

\* a call on a text of 51 different retained sentences, cut at the cap
C31_Witness ==
    /\ fb.called
    /\ Len(fb.questions) = 50
    /\ Len(Retained[fb.text]) = 51

\* ------------------------------------------------------------------------
\* C32: generate_structured makes one generative call; a response that does
\* not parse directly is scanned once for an embedded object, and when that
\* fails too (or the call itself raised) it raises instead of returning a
\* value; extract_from_content never propagates that and returns the
\* heuristic metadata instead
ParsesDirectly(llm) == llm.ok /\ JsonLoads(Unfence(llm.text)).ok

ParsesEmbedded(llm) ==
    /\ llm.ok
    /\ ScanObject(Unfence(llm.text)) # None
    /\ JsonLoads(ScanObject(Unfence(llm.text))[1]).ok

C32_StructuredRetryThenRaise ==
    (sg.called /\ sg.llm # None) =>
        LET llm == sg.llm[1]
            structured == sg.result.structured[1]
        IN  /\ structured.calls = 1
            /\ structured.scanned <=> (llm.ok /\ ~ParsesDirectly(llm))
            /\ structured.raised <=> ~(ParsesDirectly(llm) \/ ParsesEmbedded(llm))
            /\ structured.raised <=> structured.value = None
            /\ ~sg.result.raised
            /\ structured.raised => sg.result.metadata = MetadataFallbackOf[sg.text]
            /\ ~structured.raised => sg.result.metadata = structured.value[1]

\* the response held two objects: neither attempt parsed it, and the caller
\* got the heuristic metadata of a document that names an industry
C32_Witness ==
    /\ sg.called
    /\ sg.llm = Some(LLMReturn(RespTwoObjects))
    /\ sg.result.structured[1].scanned
    /\ sg.result.heuristic
    /\ sg.result.metadata.industry # None

\* ------------------------------------------------------------------------
\* C33: every triple that a search running while add_documents is running
\* returns pairs a document with exactly the metadata that document was
\* added with
C33_SearchSeesConsistentView ==
    \A i \in 1..Len(vs.results) :
        LET triple == vs.results[i]
        IN  /\ triple.idx <= Len(vs.added)
            /\ triple.document = vs.added[triple.idx].document
            /\ triple.metadata = vs.added[triple.idx].metadata

\* ------------------------------------------------------------------------
\* C34: two different workflows that are both ready with an output_file_path
\* (two workflows of one client formatted on the same day included) have
\* different output_file_path values
C34_ArtifactsNotShared ==
    \A w1, w2 \in DOMAIN db :
        (/\ w1 # w2
         /\ db[w1].exists /\ db[w1].state = "ready" /\ db[w1].output_file_path # None
         /\ db[w2].exists /\ db[w2].state = "ready" /\ db[w2].output_file_path # None)
        => db[w1].output_file_path # db[w2].output_file_path

\* ------------------------------------------------------------------------
\* C35: at most one background task is ever scheduled for a workflow_id; an
\* upload whose workflow_id already has a record fails in create_workflow,
\* leaves every record as it was and schedules no task for that id
C35_OneWorkerPerWorkflow ==
    /\ [](\A w \in WorkflowIds : up.tasks[w] <= 1)
    /\ [][\A w \in WorkflowIds :
            (up' # up /\ up'.workflow_id = w /\ db[w].exists) =>
                /\ up'.raised
                /\ db' = db
                /\ up'.tasks = up.tasks
                /\ pc' = pc /\ loc' = loc /\ rfp' = rfp]_vars

\* an upload was refused for the id of a workflow whose run is under way
C35_Witness ==
    /\ up.requested /\ up.raised
    /\ db[up.workflow_id].exists
    /\ db[up.workflow_id].state = "generating"
    /\ up.tasks[up.workflow_id] = 1

\* ------------------------------------------------------------------------
\* C36: a process_rfp run whose analysis yields zero questions (a failed
\* analysis replaced by the minimal result included) never invokes the
\* formatter and never ends in READY
C36_NoReadyWithoutAnswers ==
    (orch.at # "idle" /\ orch.questions = 0) =>
        (orch.formatter = "none" /\ orch.state # "ready")

\* ------------------------------------------------------------------------
\* C37: an update_workflow_* call for a workflow_id without a record raises
\* and leaves the store as it was: no record is created, none is modified
C37_UpdateOfMissingRecordRaises ==
    [][\A w \in ConcurrentIds :
        (upd' # upd /\ upd'.workflow_id = w /\ ~db[w].exists) =>
            (upd'.raised /\ db' = db)]_vars

\* an update was refused for an id without a record while the record of the
\* other id, already written to, stayed
C37_Witness ==
    /\ upd.called /\ upd.raised
    /\ ~db[upd.workflow_id].exists
    /\ \E v \in ConcurrentIds : db[v].exists /\ db[v].state = "ready"

====
